---- MODULE Spec2Model ----
(***************************************************************************)
(* A model of one Yeelight device session (src/src/Yeelight.cpp): the      *)
(* capability-gated setters, send_command, checkResponse, connect, the     *)
(* socket callbacks that run in the AsyncTCP event context, and the device *)
(* at the other end of the sockets.                                        *)
(***************************************************************************)
EXTENDS Integers, Sequences, FiniteSets, TLC

\* ------------------------------------------------------------------ bounds
MaxSockets == 3      \* AsyncClient objects created in one run
MaxCalls == 1        \* public calls one caller thread makes
MaxInbound == 1      \* inbound connections the listener accepts
Timeout == 20        \* the session's timeout (ms), as set by set_timeout
MaxSteps == 257      \* the longest Flow the application builds
MaxNames == 2        \* method names in the support line of a discovery response
MaxObjects == 2      \* Yeelight objects the application constructs
MaxAddresses == 2    \* device addresses on the network
StaleInbound == 2    \* inbound connections where a direct socket is replaced by a newer one
WrapCalls == 3       \* calls before and after the id counter wraps, the run between them included
StreamChunks == 2    \* chunks onData was given before the peers stop sending
MaxChunk == 7        \* the longest chunk onData is given: a whole line of Lines
BurstChunk == 10     \* the longest chunk of a burst: two lines in one segment

\* ------------------------------------------------------- program constants
IdModulus == 65536   \* uint16_t response_id
MinDuration == 30    \* duration < 30
MinBright == 1
MaxBright == 100
MaxHue == 359
MaxSat == 100
MinCt == 1700
MaxCt == 6500
ConnectPollMs == 10  \* vTaskDelay(10) in send_command
max_retry == 3       \* max_retry(3) of the constructors that connect

NULL == 0
Threads == {1, 2}
SockIds == 1..MaxSockets

\* ResponseType (Yeelight_enums.h)
SUCCESS == "SUCCESS"
METHOD_NOT_SUPPORTED == "METHOD_NOT_SUPPORTED"
INVALID_PARAMS == "INVALID_PARAMS"
ERROR == "ERROR"
UNEXPECTED_RESPONSE == "UNEXPECTED_RESPONSE"
TIMEOUT == "TIMEOUT"
CONNECTION_FAILED == "CONNECTION_FAILED"
CONNECTION_LOST == "CONNECTION_LOST"
IN_PROGRESS == "IN_PROGRESS"
NoResult == "none"

\* LightType (Yeelight_enums.h)
MAIN_LIGHT == "MAIN_LIGHT"
BACKGROUND_LIGHT == "BACKGROUND_LIGHT"
BOTH == "BOTH"
AUTO == "AUTO"
LightTypes == {MAIN_LIGHT, BACKGROUND_LIGHT, BOTH, AUTO}

\* The protocol methods of the modelled setters (SupportedMethods bits).
MainMethods == {"set_power", "set_ct_abx", "set_rgb", "set_bright", "set_hsv"}
BgMethod(m) == "bg_" \o m
Methods == MainMethods \cup {BgMethod(m) : m \in MainMethods}

\* --------------------------------------------------------------- the calls
\* A public call: the operation, its light-channel selector and arguments.
NoCall == [op |-> "none", lt |-> MAIN_LIGHT, duration |-> 500, bright |-> 50,
           hue |-> 0, sat |-> 0, ct |-> 4000]
Durations == {29, 500}
Brights == {0, 50, 101}
Hues == {359, 360}
Sats == {100, 101}
Cts == {1699, 4000, 6501}

SetterCalls ==
    {[NoCall EXCEPT !.op = "set_power", !.lt = l, !.duration = d] :
        l \in LightTypes, d \in Durations}
    \cup {[NoCall EXCEPT !.op = "set_color_temp", !.lt = l, !.duration = d, !.ct = c] :
        l \in LightTypes, d \in Durations, c \in Cts}
    \cup {[NoCall EXCEPT !.op = "set_rgb_color", !.lt = l, !.duration = d] :
        l \in LightTypes, d \in Durations}
    \cup {[NoCall EXCEPT !.op = "set_brightness", !.lt = l, !.duration = d, !.bright = b] :
        l \in LightTypes, d \in Durations, b \in Brights}
    \cup {[NoCall EXCEPT !.op = "set_hsv_color", !.lt = l, !.duration = d, !.hue = h, !.sat = s] :
        l \in LightTypes, d \in Durations, h \in Hues, s \in Sats}
ConnectCall == [NoCall EXCEPT !.op = "connect"]
AllCalls == SetterCalls \cup {ConnectCall}
\* The calls of the specifications that explore the channel: one
\* single-channel setter with arguments in range, and connect().
PlainCalls == {[NoCall EXCEPT !.op = "set_rgb_color"], ConnectCall}

\* The two methods a setter dispatches to.
MainOf(op) ==
    CASE op = "set_power" -> "set_power"
      [] op = "set_color_temp" -> "set_ct_abx"
      [] op = "set_rgb_color" -> "set_rgb"
      [] op = "set_brightness" -> "set_bright"
      [] op = "toggle_power" -> "toggle"
      [] OTHER -> "set_hsv"

\* The documented parameter ranges of a call.
ValidArgs(c) ==
    /\ c.duration >= MinDuration
    /\ c.op = "set_color_temp" => (c.ct >= MinCt /\ c.ct <= MaxCt)
    /\ c.op = "set_brightness" => (c.bright >= MinBright /\ c.bright <= MaxBright)
    /\ c.op = "set_hsv_color" => (c.hue <= MaxHue /\ c.sat <= MaxSat)

\* A setter either returns at once (ret) or issues the commands cmds in order.
Return(r) == [ret |-> r, cmds |-> <<>>]
Issue(ms) == [ret |-> NoResult, cmds |-> ms]

\* The LightType branches shared by the setters: AUTO picks by capability,
\* MAIN_LIGHT and BACKGROUND_LIGHT send one command, BOTH sends two.
Dispatch(lt, m, caps) ==
    CASE lt = AUTO ->
            IF m \in caps /\ BgMethod(m) \in caps THEN Issue(<<m, BgMethod(m)>>)
            ELSE IF m \in caps THEN Issue(<<m>>)
            ELSE Issue(<<BgMethod(m)>>)
      [] lt = MAIN_LIGHT -> Issue(<<m>>)
      [] lt = BACKGROUND_LIGHT -> Issue(<<BgMethod(m)>>)
      [] OTHER -> Issue(<<m, BgMethod(m)>>)

NeitherSupported(m, caps) == m \notin caps /\ BgMethod(m) \notin caps

set_power(c, caps) ==
    IF NeitherSupported("set_power", caps) THEN Return(METHOD_NOT_SUPPORTED)
    ELSE IF c.duration < MinDuration THEN Return(INVALID_PARAMS)
    ELSE Dispatch(c.lt, "set_power", caps)

set_color_temp(c, caps) ==
    IF c.ct < MinCt \/ c.ct > MaxCt THEN Return(INVALID_PARAMS)
    ELSE IF NeitherSupported("set_ct_abx", caps) THEN Return(METHOD_NOT_SUPPORTED)
    ELSE Dispatch(c.lt, "set_ct_abx", caps)

set_rgb_color(c, caps) ==
    IF c.duration < MinDuration THEN Return(INVALID_PARAMS)
    ELSE IF NeitherSupported("set_rgb", caps) THEN Return(METHOD_NOT_SUPPORTED)
    ELSE Dispatch(c.lt, "set_rgb", caps)

set_brightness(c, caps) ==
    IF c.bright < MinBright \/ c.bright > MaxBright THEN Return(INVALID_PARAMS)
    ELSE IF c.duration < MinDuration THEN Return(INVALID_PARAMS)
    ELSE IF NeitherSupported("set_bright", caps) THEN Return(METHOD_NOT_SUPPORTED)
    ELSE Dispatch(c.lt, "set_bright", caps)

set_hsv_color(c, caps) ==
    IF c.hue > MaxHue THEN Return(INVALID_PARAMS)
    ELSE IF c.sat > MaxSat THEN Return(INVALID_PARAMS)
    ELSE IF c.duration < MinDuration THEN Return(INVALID_PARAMS)
    ELSE IF NeitherSupported("set_hsv", caps) THEN Return(METHOD_NOT_SUPPORTED)
    ELSE Dispatch(c.lt, "set_hsv", caps)

\* toggle_power: with both toggle capabilities AUTO and BOTH send the one
\* dev_toggle command; each other branch tests the capability it needs.
ToggleMethods == {"toggle", "bg_toggle"}
toggle_power(c, caps) ==
    CASE c.lt = AUTO ->
            IF "toggle" \in caps /\ "bg_toggle" \in caps THEN Issue(<<"dev_toggle">>)
            ELSE IF "toggle" \in caps THEN Issue(<<"toggle">>)
            ELSE IF "bg_toggle" \in caps THEN Issue(<<"bg_toggle">>)
            ELSE Return(METHOD_NOT_SUPPORTED)
      [] c.lt = MAIN_LIGHT ->
            IF "toggle" \in caps THEN Issue(<<"toggle">>) ELSE Return(METHOD_NOT_SUPPORTED)
      [] c.lt = BACKGROUND_LIGHT ->
            IF "bg_toggle" \in caps THEN Issue(<<"bg_toggle">>)
            ELSE Return(METHOD_NOT_SUPPORTED)
      [] OTHER ->
            IF "toggle" \in caps /\ "bg_toggle" \in caps THEN Issue(<<"dev_toggle">>)
            ELSE Return(METHOD_NOT_SUPPORTED)

Setter(c, caps) ==
    CASE c.op = "set_power" -> set_power(c, caps)
      [] c.op = "set_color_temp" -> set_color_temp(c, caps)
      [] c.op = "set_rgb_color" -> set_rgb_color(c, caps)
      [] c.op = "set_brightness" -> set_brightness(c, caps)
      [] c.op = "toggle_power" -> toggle_power(c, caps)
      [] OTHER -> set_hsv_color(c, caps)

\* The checks a *_command function makes before it calls send_command:
\* NoResult when it goes on to send.
CommandGate(m, c, caps) ==
    CASE m \in {"set_power", "bg_set_power"} ->
            IF m \notin caps THEN METHOD_NOT_SUPPORTED
            ELSE IF c.duration < MinDuration THEN INVALID_PARAMS
            ELSE NoResult
      [] m \in {"set_ct_abx", "bg_set_ct_abx"} ->
            IF m \notin caps THEN METHOD_NOT_SUPPORTED ELSE NoResult
      [] OTHER -> NoResult

\* ------------------------------------------------------------------- state
VARIABLES
    supported_methods,  \* the capability bits that are true
    response_id,        \* uint16_t command-id counter
    responses,          \* std::map<uint16_t, ResponseType>
    responses_mutex,    \* the set of threads that hold it: empty when free
    client,             \* primary AsyncClient* (NULL or a socket)
    music_client,       \* direct-channel AsyncClient*
    music_mode,
    connecting,
    sock,               \* the live AsyncClient objects: role and connection state
    out,                \* what the session wrote, in order
    rx,                 \* response lines on their way to the session
    devq,               \* commands the device received and has not answered
    inbound,            \* inbound connections accepted so far
    crashed,            \* a null AsyncClient* was dereferenced
    th,                 \* the caller threads: position and locals
    music_sem,          \* binary semaphore: 1 when given, 0 when empty
    accepted,           \* accepted sockets whose onConnect callback has not run
    partialResponse,    \* onData's accumulator: the bytes not yet consumed
    properties,         \* the Property Store
    wire,               \* bytes the peer has sent that onData has not been given
    fed,                \* the chunks onData has been given, in order
    flow,               \* a Flow object of the application
    cf,                 \* what start_flow returned or handed to send_command
    packet,             \* a discovery response that arrived
    device,             \* the YeelightDevice parseDiscoveryResponse made of it
    objects,            \* the Yeelight objects of the application
    devices,            \* static std::map<uint32_t, Yeelight *> devices
    deletions,          \* how often each AsyncClient object was deleted
    timers,             \* the deletion timers pending for each AsyncClient object
    cb,                 \* the disconnect callback the event context is inside
    partialFrom,        \* the socket each byte of partialResponse arrived on
    music_mode_server   \* static AsyncServer *music_mode_server

vars == <<supported_methods, response_id, responses, responses_mutex, client,
          music_client, music_mode, connecting, sock, out, rx, devq,
          inbound, crashed, th, music_sem, accepted, partialResponse,
          properties, wire, fed, flow, cf, packet, device, objects, devices,
          deletions, timers, cb, partialFrom, music_mode_server>>

\* The state that the send path leaves alone: the rendezvous semaphore, the
\* pending onConnect callbacks of accepted sockets, and the frame reader.
\* The state outside the session's channels: the application's Flow object and
\* the parameters start_flow built from it, discovery, and the registry of
\* sessions with the objects it points to.
\* The retirement of socket objects: deletions, deletion timers, and the
\* position of the disconnect callback that is running.
retire == <<deletions, timers, cb>>
ext == <<flow, cf, packet, device, objects, devices, retire, partialFrom,
         music_mode_server>>

aux == <<music_sem, accepted, partialResponse, properties, wire, fed, ext>>

session == <<supported_methods, response_id, responses, responses_mutex, client,
             music_client, music_mode, connecting>>

\* struct YeelightProperties, in the order of the positional payload: the
\* member, the key a notification names it by, and how a value is converted.
Fields == <<
    [name |-> "power",         key |-> "power",       kind |-> "on"],
    [name |-> "bright",        key |-> "bright",      kind |-> "u8"],
    [name |-> "ct",            key |-> "ct",          kind |-> "u16"],
    [name |-> "rgb",           key |-> "rgb",         kind |-> "u32"],
    [name |-> "hue",           key |-> "hue",         kind |-> "u16"],
    [name |-> "sat",           key |-> "sat",         kind |-> "u8"],
    [name |-> "color_mode",    key |-> "color_mode",  kind |-> "mode"],
    [name |-> "flowing",       key |-> "flowing",     kind |-> "eq1"],
    [name |-> "delayoff",      key |-> "delayoff",    kind |-> "u8"],
    [name |-> "music_on",      key |-> "music_on",    kind |-> "eq1"],
    [name |-> "name",          key |-> "name",        kind |-> "text"],
    [name |-> "bg_power",      key |-> "bg_power",    kind |-> "on"],
    [name |-> "bg_flowing",    key |-> "bg_flowing",  kind |-> "eq1"],
    [name |-> "bg_ct",         key |-> "bg_ct",       kind |-> "u16"],
    [name |-> "bg_color_mode", key |-> "bg_lmode",    kind |-> "mode"],
    [name |-> "bg_bright",     key |-> "bg_bright",   kind |-> "u8"],
    [name |-> "bg_rgb",        key |-> "bg_rgb",      kind |-> "u32"],
    [name |-> "bg_hue",        key |-> "bg_hue",      kind |-> "u16"],
    [name |-> "bg_sat",        key |-> "bg_sat",      kind |-> "u8"],
    [name |-> "nl_br",         key |-> "nl_br",       kind |-> "u8"],
    [name |-> "active_mode",   key |-> "active_mode", kind |-> "eq1"] >>

FieldNames == {Fields[i].name : i \in DOMAIN Fields}
PositionOf(name) == CHOOSE i \in DOMAIN Fields : Fields[i].name = name

\* A value-initialised member of YeelightProperties.
DefaultOf(kind) ==
    CASE kind \in {"on", "eq1"} -> FALSE
      [] kind = "mode" -> "COLOR_MODE_UNKNOWN"
      [] kind = "text" -> ""
      [] OTHER -> 0

\* The Property Store after construction: properties() in the constructors.
NoProperties == [f \in FieldNames |-> DefaultOf(Fields[PositionOf(f)].kind)]

IdleThread == [pc |-> "idle", cur |-> NoCall, todo |-> <<>>, myid |-> 0,
               waitid |-> 0, waited |-> 0, expired |-> FALSE, ret |-> NoResult,
               result |-> NoResult, chan |-> "none", via |-> NULL, ncalls |-> 0,
               attempts |-> 0, back |-> "done"]

FreeSock == [role |-> "none", st |-> "unused"]

\* bool Yeelight::is_connected() const
is_connected == client # NULL /\ sock[client].st = "connected"

\* bool Yeelight::is_connected_music() const
is_connected_music == music_client # NULL /\ sock[music_client].st = "connected"

\* new AsyncClient(): the next object not in use. (An object that a running
\* call wrote to keeps its name until the call returns, so that a name stands
\* for one connection throughout a call.)
UnusedSocks ==
    {s \in SockIds : sock[s].st = "unused" /\ \A t \in Threads : th[t].via # s}
NewSock == CHOOSE s \in UnusedSocks : \A u \in UnusedSocks : s <= u

\* AsyncClient::close(): a live socket stops being connected and its
\* disconnect callback becomes due
Closed(sk, s) ==
    IF s # NULL /\ sk[s].st \in {"connecting", "connected"}
    THEN [sk EXCEPT ![s].st = "closing"] ELSE sk

\* The lines or commands in flight on sockets that are connected in sk.
Deliverable(items, sk) == {l \in items : sk[l.s].st = "connected"}

\* The capability sets the initial states draw from: per light channel,
\* every method of the channel advertised or none.
CapConfigs == {Methods, MainMethods, Methods \ MainMethods, {}}

\* The state after construction: Yeelight(device) has called connect() (an
\* attempt is in flight), or no socket exists (Yeelight(), or the attempt
\* failed at once).
\* Flow::Flow(): no steps, count = 0, action = FLOW_RECOVER
NoFlow == [steps |-> <<>>, count |-> 0, action |-> "FLOW_RECOVER"]
NoCf == [ret |-> NoResult, count |-> 0, action |-> 0, flowExpression |-> <<>>]
\* No discovery response has arrived and none was parsed.
NoPacket == [support |-> FALSE, names |-> <<>>]
NoDevice == [parsed |-> FALSE, supported_methods |-> {}]

\* A Yeelight object that was not constructed yet. (origin: the address the
\* capability bits of the object were advertised for, 0 for none.)
Objects == 1..MaxObjects
Addresses == 1..MaxAddresses
NoObject == [state |-> "none", ip |-> 0, supported_methods |-> {}, refreshedMethods |-> FALSE,
             origin |-> 0]

InitDiscovery ==
    /\ packet = NoPacket
    /\ device = NoDevice
InitRegistry ==
    /\ objects = [y \in Objects |-> NoObject]
    /\ devices = <<>>
\* No socket object was deleted or scheduled for deletion, and the event
\* context is inside no disconnect callback.
NoCb == [s |-> NULL, pc |-> "none"]
InitRetire ==
    /\ deletions = [s \in SockIds |-> 0]
    /\ timers = [s \in SockIds |-> 0]
    /\ cb = NoCb
InitExt ==
    /\ flow = NoFlow
    /\ cf = NoCf
    /\ InitDiscovery
    /\ InitRegistry
    /\ InitRetire
    /\ partialFrom = <<>>
    /\ music_mode_server = NULL

InitSession(capsets) ==
    /\ supported_methods \in capsets
    /\ response_id = 1
    /\ responses = <<>>
    /\ responses_mutex = {}
    /\ music_client = NULL
    /\ music_mode = FALSE
    /\ \/ /\ client = 1
          /\ connecting = TRUE
          /\ sock = [s \in SockIds |-> IF s = 1 THEN [role |-> "main", st |-> "connecting"]
                                       ELSE FreeSock]
       \/ /\ client = NULL
          /\ connecting = FALSE
          /\ sock = [s \in SockIds |-> FreeSock]
    /\ out = <<>>
    /\ rx = {}
    /\ devq = {}
    /\ inbound = 0
    /\ crashed = FALSE
    /\ th = [t \in Threads |-> IdleThread]

InitWith(capsets) ==
    /\ InitSession(capsets)
    /\ InitExt
    /\ music_sem = 0
    /\ accepted = {}
    /\ partialResponse = <<>>
    /\ properties = NoProperties
    /\ wire = <<>>
    /\ fed = <<>>

\* ------------------------------------------------------ caller-thread steps
At(t, p) == ~crashed /\ th[t].pc = p

\* A *_command or send_command returns r to the setter.
CommandResult(t, r) == [th EXCEPT ![t].pc = "cmd_ret", ![t].ret = r]

\* A public setter is called: validation and the capability gate.
SetterCall(t, calls, limit) ==
    /\ At(t, "idle")
    /\ th[t].ncalls < limit
    /\ \E c \in calls \ {ConnectCall} :
        LET plan == Setter(c, supported_methods) IN
        th' = [th EXCEPT ![t] = [IdleThread EXCEPT
                    !.ncalls = th[t].ncalls + 1,
                    !.cur = c,
                    !.todo = plan.cmds,
                    !.result = plan.ret,
                    !.pc = IF plan.ret # NoResult THEN "done" ELSE "cmd"]]
    /\ UNCHANGED <<session, sock, out, rx, devq, inbound, crashed>>
    /\ UNCHANGED aux

\* connect() is called by the user.
ConnectCallStart(t, calls, limit) ==
    /\ At(t, "idle")
    /\ th[t].ncalls < limit
    /\ ConnectCall \in calls
    /\ th' = [th EXCEPT ![t] = [IdleThread EXCEPT
                    !.ncalls = th[t].ncalls + 1,
                    !.cur = ConnectCall,
                    !.pc = "co_check"]]
    /\ UNCHANGED <<session, sock, out, rx, devq, inbound, crashed>>
    /\ UNCHANGED aux

\* The setter calls the next *_command function.
CommandStart(t) ==
    /\ At(t, "cmd")
    /\ LET g == CommandGate(Head(th[t].todo), th[t].cur, supported_methods) IN
        th' = IF g # NoResult THEN CommandResult(t, g)
              ELSE [th EXCEPT ![t].pc = "sc_entry"]
    /\ UNCHANGED <<session, sock, out, rx, devq, inbound, crashed>>
    /\ UNCHANGED aux

NextId(id) == (id + 1) % IdModulus

\* send_command, lines 184-206: the direct-channel branch takes the id; the
\* primary branch calls connect() when the primary is not connected.
SendEntry(t) ==
    /\ At(t, "sc_entry")
    /\ IF music_mode /\ is_connected_music
       THEN /\ th' = [th EXCEPT ![t].pc = "m_write", ![t].myid = response_id,
                                ![t].chan = "direct", ![t].via = music_client]
            /\ response_id' = NextId(response_id)
       ELSE /\ th' = [th EXCEPT ![t].pc = IF is_connected THEN "sc_wait" ELSE "co_check",
                                ![t].waited = 0, ![t].back = "sc_wait"]
            /\ UNCHANGED response_id
    /\ UNCHANGED <<supported_methods, responses, responses_mutex, client, music_client,
                   music_mode, connecting, sock, out, rx, devq, inbound, crashed>>
    /\ UNCHANGED aux

Frame(t, s, m) == [k |-> "F", t |-> t, n |-> th[t].ncalls, s |-> s, id |-> th[t].myid, m |-> m]
Terminator(t, s) == [k |-> "T", t |-> t, n |-> th[t].ncalls, s |-> s, id |-> 0, m |-> ""]

\* What the session wrote on socket s since the last line terminator.
OpenLine(s) ==
    LET on == SelectSeq(out, LAMBDA x : x.s = s)
        RECURSIVE tail(_)
        tail(n) == IF n = 0 \/ on[n].k = "T" THEN <<>> ELSE Append(tail(n - 1), on[n])
    IN tail(Len(on))

\* The device has a whole command once a terminator ends a line that holds
\* exactly one frame. It answers the commands of the primary channel only
\* (no response is sent on the direct channel).
Received(token) ==
    IF token.k = "T" /\ sock[token.s].role = "main" /\ Len(OpenLine(token.s)) = 1
    THEN {[s |-> token.s, id |-> OpenLine(token.s)[1].id]} ELSE {}

\* Write with a resend: the bytes go out twice.
WriteResend(p, token) ==
    IF p = NULL THEN /\ crashed' = TRUE
                     /\ UNCHANGED <<out, devq>>
    ELSE IF sock[p].st = "connected"
    THEN /\ out' = Append(Append(out, token), token)
         /\ devq' = devq \cup Received(token)
         /\ UNCHANGED crashed
    ELSE UNCHANGED <<out, devq, crashed>>

\* AsyncClient::write on socket pointer p: a null pointer is dereferenced; a
\* socket that is not connected takes no bytes.
Write(p, token) ==
    IF p = NULL THEN /\ crashed' = TRUE
                     /\ UNCHANGED <<out, devq>>
    ELSE IF sock[p].st = "connected"
    THEN /\ out' = Append(out, token)
         /\ devq' = devq \cup Received(token)
         /\ UNCHANGED crashed
    ELSE UNCHANGED <<out, devq, crashed>>

\* music_client->write(command, strlen(command))
MusicWrite(t) ==
    /\ At(t, "m_write")
    /\ Write(music_client, Frame(t, music_client, Head(th[t].todo)))
    /\ th' = [th EXCEPT ![t].pc = "m_term"]
    /\ UNCHANGED <<session, sock, rx, inbound>>
    /\ UNCHANGED aux

\* MusicTerm that waits for a response as the primary branch does.
MusicTermWait(t) ==
    /\ At(t, "m_term")
    /\ Write(music_client, Terminator(t, music_client))
    /\ th' = [th EXCEPT ![t].pc = "cr_test", ![t].waitid = th[t].myid,
                        ![t].expired = FALSE]
    /\ UNCHANGED <<session, sock, rx, inbound>>
    /\ UNCHANGED aux

\* music_client->write("\r\n", 2); return SUCCESS
MusicTerm(t) ==
    /\ At(t, "m_term")
    /\ Write(music_client, Terminator(t, music_client))
    /\ th' = CommandResult(t, SUCCESS)
    /\ UNCHANGED <<session, sock, rx, inbound>>
    /\ UNCHANGED aux

\* connect() has returned r: to the user, or to the caller inside the
\* library that goes on at th[t].back (and ignores the value).
ConnectResult(t, r) ==
    IF th[t].cur.op = "connect"
    THEN [th EXCEPT ![t].pc = "done", ![t].result = r]
    ELSE [th EXCEPT ![t].pc = th[t].back]

\* connect(), lines 142-144
ConnectCheck(t) ==
    /\ At(t, "co_check")
    /\ th' = IF connecting THEN ConnectResult(t, IN_PROGRESS)
             ELSE [th EXCEPT ![t].pc = "co_set"]
    /\ UNCHANGED <<session, sock, out, rx, devq, inbound, crashed>>
    /\ UNCHANGED aux

\* How many connection attempts one connect() call makes.
ConnectAttempts == 1

\* connect(), lines 145-180: the old socket is closed, a new one is created
\* and client->connect() is called; ok is its return value.
ConnectBegin(t) ==
    /\ At(t, "co_set")
    /\ UnusedSocks # {}
    /\ \E ok \in BOOLEAN :
        LET s == NewSock
            sk == Closed(sock, client) IN
        /\ sock' = IF ok THEN [sk EXCEPT ![s] = [role |-> "main", st |-> "connecting"]]
                 ELSE sk
        /\ client' = IF ok THEN s ELSE NULL
        /\ connecting' = ok
        /\ rx' = Deliverable(rx, sock')
        /\ devq' = Deliverable(devq, sock')
        /\ th' = [ConnectResult(t, IF ok THEN SUCCESS ELSE CONNECTION_FAILED)
                    EXCEPT ![t].attempts = th[t].attempts + ConnectAttempts]
    /\ UNCHANGED <<supported_methods, response_id, responses, responses_mutex,
                   music_client, music_mode, out, inbound, crashed>>
    /\ UNCHANGED aux

\* send_command, lines 207-211: wait for the primary to connect
SendWait(t) ==
    /\ At(t, "sc_wait")
    /\ th' = IF ~is_connected /\ th[t].waited < Timeout
             THEN [th EXCEPT ![t].waited = th[t].waited + ConnectPollMs]
             ELSE [th EXCEPT ![t].pc = "sc_check"]
    /\ UNCHANGED <<session, sock, out, rx, devq, inbound, crashed>>
    /\ UNCHANGED aux

\* send_command, lines 212-223: give up, or take the id
SendCheck(t) ==
    /\ At(t, "sc_check")
    /\ IF ~is_connected
       THEN /\ th' = CommandResult(t, CONNECTION_LOST)
            /\ UNCHANGED response_id
       ELSE /\ th' = [th EXCEPT ![t].pc = "sc_write", ![t].myid = response_id,
                                ![t].chan = "primary", ![t].via = client]
            /\ response_id' = NextId(response_id)
    /\ UNCHANGED <<supported_methods, responses, responses_mutex, client, music_client,
                   music_mode, connecting, sock, out, rx, devq, inbound, crashed>>
    /\ UNCHANGED aux

\* client->write(command, strlen(command))
SendWrite(t) ==
    /\ At(t, "sc_write")
    /\ Write(client, Frame(t, client, Head(th[t].todo)))
    /\ th' = [th EXCEPT ![t].pc = "sc_term"]
    /\ UNCHANGED <<session, sock, rx, inbound>>
    /\ UNCHANGED aux

\* The id send_command passes to checkResponse: response_id - 1, as uint16_t.
WaitId(t) == (response_id + IdModulus - 1) % IdModulus

\* client->write("\r\n", 2); return checkResponse(response_id - 1)
SendTerm(t) ==
    /\ At(t, "sc_term")
    /\ Write(client, Terminator(t, client))
    /\ th' = [th EXCEPT ![t].pc = "cr_test", ![t].waitid = WaitId(t),
                        ![t].expired = FALSE]
    /\ UNCHANGED <<session, sock, rx, inbound>>
    /\ UNCHANGED aux

\* The clock passes start + timeout of the wait of thread t: the loop test
\* that follows reads millis() - start >= timeout.
Expire(t) ==
    /\ At(t, "cr_test")
    /\ ~th[t].expired
    /\ th' = [th EXCEPT ![t].expired = TRUE]
    /\ UNCHANGED <<session, sock, out, rx, devq, inbound, crashed>>
    /\ UNCHANGED aux

\* checkResponse, lines 112-113: the loop test, then lockResponses()
CheckLoop(t) ==
    /\ At(t, "cr_test")
    /\ IF th[t].expired
       THEN /\ th' = CommandResult(t, TIMEOUT)
            /\ UNCHANGED responses_mutex
       ELSE /\ responses_mutex = {}
            /\ responses_mutex' = {t}
            /\ th' = [th EXCEPT ![t].pc = "cr_locked"]
    /\ UNCHANGED <<supported_methods, response_id, responses, client, music_client,
                   music_mode, connecting, sock, out, rx, devq, inbound, crashed>>
    /\ UNCHANGED aux

Erase(f, id) == [i \in DOMAIN f \ {id} |-> f[i]]

\* checkResponse, lines 114-121: find, erase and return, or unlock
CheckFind(t) ==
    /\ At(t, "cr_locked")
    /\ IF th[t].waitid \in DOMAIN responses
       THEN /\ th' = CommandResult(t, responses[th[t].waitid])
            /\ responses' = Erase(responses, th[t].waitid)
       ELSE /\ th' = [th EXCEPT ![t].pc = "cr_conn"]
            /\ UNCHANGED responses
    /\ responses_mutex' = {}
    /\ UNCHANGED <<supported_methods, response_id, client, music_client,
                   music_mode, connecting, sock, out, rx, devq, inbound, crashed>>
    /\ UNCHANGED aux

\* checkResponse, lines 122-125: the is_connected() test, then the sleep
CheckConn(t) ==
    /\ At(t, "cr_conn")
    /\ th' = IF ~is_connected THEN CommandResult(t, CONNECTION_LOST)
             ELSE [th EXCEPT ![t].pc = "cr_test"]
    /\ UNCHANGED <<session, sock, out, rx, devq, inbound, crashed>>
    /\ UNCHANGED aux

\* A CommandReturn that goes on to the next command whatever the first one
\* returned.
CommandReturnAnyway(t) ==
    /\ At(t, "cmd_ret")
    /\ th' = IF Len(th[t].todo) > 1
             THEN [th EXCEPT ![t].pc = "cmd", ![t].todo = Tail(th[t].todo)]
             ELSE [th EXCEPT ![t].pc = "done", ![t].result = th[t].ret]
    /\ UNCHANGED <<session, sock, out, rx, devq, inbound, crashed>>
    /\ UNCHANGED aux

\* The caller of a *_command has the command's result: a setter sends the
\* second command of a two-channel operation only after SUCCESS;
\* set_music_mode(false) goes on after SUCCESS; else the result is returned.
CommandReturn(t) ==
    /\ At(t, "cmd_ret")
    /\ th' = IF Len(th[t].todo) > 1 /\ th[t].ret = SUCCESS
             THEN [th EXCEPT ![t].pc = "cmd", ![t].todo = Tail(th[t].todo)]
             ELSE IF th[t].cur.op = "disable_music_mode" /\ th[t].ret = SUCCESS
             THEN [th EXCEPT ![t].pc = "sm_close"]
             ELSE [th EXCEPT ![t].pc = "done", ![t].result = th[t].ret]
    /\ UNCHANGED <<session, sock, out, rx, devq, inbound, crashed>>
    /\ UNCHANGED aux

\* The calls that switch the direct channel on and off.
EnableCall == [NoCall EXCEPT !.op = "enable_music_mode"]
MusicOnCall == [NoCall EXCEPT !.op = "set_music_mode"]
MusicOffCall == [NoCall EXCEPT !.op = "disable_music_mode"]
MusicCalls == {EnableCall, MusicOnCall, MusicOffCall}

\* enable_music_mode(), set_music_mode(true) or set_music_mode(false) is
\* called: the capability gate.
MusicCallStart(t, calls, limit) ==
    /\ At(t, "idle")
    /\ th[t].ncalls < limit
    /\ \E c \in calls \cap MusicCalls :
        th' = [th EXCEPT ![t] = [IdleThread EXCEPT
                    !.ncalls = th[t].ncalls + 1,
                    !.cur = c,
                    !.todo = <<"set_music">>,
                    !.result = IF "set_music" \in supported_methods
                               THEN NoResult ELSE METHOD_NOT_SUPPORTED,
                    !.pc = IF "set_music" \notin supported_methods THEN "done"
                           ELSE IF c = MusicOffCall THEN "cmd" ELSE "em_conn"]]
    /\ UNCHANGED <<session, sock, out, rx, devq, inbound, crashed>>
    /\ UNCHANGED aux

\* Where enable_music_mode and set_music_mode(true) go on after the listener
\* is created: the semaphore wait, or set_music_command.
AfterListener(t) == IF th[t].cur = EnableCall THEN "em_take" ELSE "cmd"

\* enable_music_mode lines 240-249, set_music_mode lines 2250-2260:
\* connect() when the primary is not connected, then createMusicModeServer.
MusicPrelude(t) ==
    /\ At(t, "em_conn")
    /\ th' = IF client = NULL \/ ~is_connected
             THEN [th EXCEPT ![t].pc = "co_check", ![t].back = AfterListener(t)]
             ELSE [th EXCEPT ![t].pc = AfterListener(t)]
    /\ UNCHANGED <<session, sock, out, rx, devq, inbound, crashed>>
    /\ UNCHANGED aux

\* The bound of the semaphore wait of enable_music_mode, in ms.
SemWaitMs == 1000
ScanWidth == 511       \* the field width of %511[^\r\n]
NPOS == -1             \* std::string::npos
PropertyCount == 21    \* the values of a full-property payload

\* enable_music_mode lines 250-253: xSemaphoreTake(music_sem, 1000 ms). The
\* semaphore is taken when it is given; when SemWaitMs pass with the
\* semaphore empty the call returns CONNECTION_FAILED.
SemTake(t) ==
    /\ At(t, "em_take")
    /\ IF music_sem = 1
       THEN /\ music_sem' = 0
            /\ th' = [th EXCEPT ![t].pc = "cmd"]
       ELSE /\ UNCHANGED music_sem
            /\ th' = [th EXCEPT ![t].pc = "done", ![t].result = CONNECTION_FAILED,
                                ![t].waited = SemWaitMs]
    /\ UNCHANGED <<session, sock, out, rx, devq, inbound, crashed>>
    /\ UNCHANGED <<accepted, partialResponse, properties, wire, fed, ext>>

\* set_music_mode(false) lines 2271-2275: music_client->close(); delete
\* music_client; music_client = nullptr. Then connect() is called.
MusicClose(t) ==
    /\ At(t, "sm_close")
    /\ sock' = IF music_client = NULL THEN sock
               ELSE [sock EXCEPT ![music_client] = FreeSock]
    /\ music_client' = NULL
    /\ accepted' = accepted \ {music_client}
    /\ rx' = Deliverable(rx, sock')
    /\ devq' = Deliverable(devq, sock')
    /\ th' = [th EXCEPT ![t].pc = "co_check", ![t].back = "sm_done"]
    /\ UNCHANGED <<supported_methods, response_id, responses, responses_mutex,
                   client, music_mode, connecting, out, inbound, crashed>>
    /\ UNCHANGED <<music_sem, partialResponse, properties, wire, fed, ext>>

\* set_music_mode(false) line 2277: return SUCCESS
MusicOffReturn(t) ==
    /\ At(t, "sm_done")
    /\ th' = [th EXCEPT ![t].pc = "done", ![t].result = SUCCESS]
    /\ UNCHANGED <<session, sock, out, rx, devq, inbound, crashed>>
    /\ UNCHANGED aux

\* The public call returns to the user. (The record of what was written is
\* dropped once no call is running.)
CallReturn(t) ==
    /\ At(t, "done")
    /\ th' = [th EXCEPT ![t] = [IdleThread EXCEPT !.ncalls = th[t].ncalls]]
    /\ out' = IF \A u \in Threads \ {t} : th[u].pc = "idle" THEN <<>> ELSE out
    /\ UNCHANGED <<session, sock, rx, devq, inbound, crashed>>
    /\ UNCHANGED aux

\* ----------------------------------------------------- event-context steps
\* The onConnect lambda of connect(): connecting = false; onMainClientConnect
OnConnect(s) ==
    /\ ~crashed
    /\ sock[s] = [role |-> "main", st |-> "connecting"]
    /\ sock' = [sock EXCEPT ![s].st = "connected"]
    /\ connecting' = FALSE
    /\ UNCHANGED <<supported_methods, response_id, responses, responses_mutex, client,
                   music_client, music_mode, out, rx, devq, inbound, crashed, th>>
    /\ UNCHANGED aux

\* onMainClientError: the attempt failed; the socket's disconnect follows
OnMainClientError(s) ==
    /\ ~crashed
    /\ sock[s] = [role |-> "main", st |-> "connecting"]
    /\ sock' = [sock EXCEPT ![s].st = "closing"]
    /\ connecting' = FALSE
    /\ UNCHANGED <<supported_methods, response_id, responses, responses_mutex, client,
                   music_client, music_mode, out, rx, devq, inbound, crashed, th>>
    /\ UNCHANGED aux

\* The peer or the network ends a connection.
Drop(s) ==
    /\ ~crashed
    /\ sock[s].st = "connected"
    /\ sock' = Closed(sock, s)
    /\ rx' = Deliverable(rx, sock')
    /\ devq' = Deliverable(devq, sock')
    /\ UNCHANGED <<session, out, inbound, crashed, th>>
    /\ UNCHANGED aux

\* onMainClientDisconnect
OnMainClientDisconnect(s) ==
    /\ ~crashed
    /\ sock[s] = [role |-> "main", st |-> "closing"]
    /\ sock' = [sock EXCEPT ![s] = FreeSock]
    /\ client' = IF client = s THEN NULL ELSE client
    /\ UNCHANGED <<supported_methods, response_id, responses, responses_mutex,
                   music_client, music_mode, connecting, out, rx, devq, inbound,
                   crashed, th>>
    /\ UNCHANGED aux

\* onMainClientDisconnect when xTimerCreate returns nullptr in
\* scheduleDeleteClient: the socket object is deleted inside its own
\* disconnect callback.
OnMainClientDisconnectNoTimer(s) ==
    /\ ~crashed
    /\ sock[s] = [role |-> "main", st |-> "closing"]
    /\ client = s
    /\ sock' = [sock EXCEPT ![s].st = "deleted_in_callback"]
    /\ client' = NULL
    /\ UNCHANGED <<supported_methods, response_id, responses, responses_mutex,
                   music_client, music_mode, connecting, out, rx, devq, inbound,
                   crashed, th>>
    /\ UNCHANGED aux

\* onMusicDisconnect when xTimerCreate returns nullptr in
\* scheduleDeleteClient.
OnMusicDisconnectNoTimer(s) ==
    /\ ~crashed
    /\ sock[s] = [role |-> "music", st |-> "closing"]
    /\ music_client = s
    /\ sock' = [sock EXCEPT ![s].st = "deleted_in_callback"]
    /\ music_client' = NULL
    /\ music_mode' = FALSE
    /\ accepted' = accepted \ {s}
    /\ UNCHANGED <<supported_methods, response_id, responses, responses_mutex,
                   client, connecting, out, rx, devq, inbound, crashed, th>>
    /\ UNCHANGED <<music_sem, partialResponse, properties, wire, fed, ext>>

\* The disconnect callback of a socket that was deleted inside it returns
\* to AsyncTCP.
CallbackReturn(s) ==
    /\ ~crashed
    /\ sock[s].st = "deleted_in_callback"
    /\ sock' = [sock EXCEPT ![s] = FreeSock]
    /\ UNCHANGED <<session, out, rx, devq, inbound, crashed, th>>
    /\ UNCHANGED aux

\* onMusicDisconnect
OnMusicDisconnect(s) ==
    /\ ~crashed
    /\ sock[s] = [role |-> "music", st |-> "closing"]
    /\ sock' = [sock EXCEPT ![s] = FreeSock]
    /\ music_client' = IF music_client = s THEN NULL ELSE music_client
    /\ music_mode' = FALSE
    /\ accepted' = accepted \ {s}
    /\ UNCHANGED <<supported_methods, response_id, responses, responses_mutex,
                   client, connecting, out, rx, devq, inbound, crashed, th>>
    /\ UNCHANGED <<music_sem, partialResponse, properties, wire, fed, ext>>

\* handleNewClient for a connection from the session's address: the
\* callbacks are registered on the new socket (onConnect among them), it
\* becomes music_client and y->client->close() is called.
HandleNewClientUpTo(limit) ==
    /\ ~crashed
    /\ inbound < limit
    /\ UnusedSocks # {}
    /\ inbound' = inbound + 1
    /\ LET s == NewSock
           sk == [sock EXCEPT ![s] = [role |-> "music", st |-> "connected"]] IN
        /\ music_client' = s
        /\ music_mode' = TRUE
        /\ IF client = NULL
           THEN /\ crashed' = TRUE
                /\ sock' = Closed(sk, music_client)
           ELSE /\ sock' = Closed(Closed(sk, music_client), client)
                /\ UNCHANGED crashed
    /\ rx' = Deliverable(rx, sock')
    /\ devq' = Deliverable(devq, sock')
    /\ accepted' = accepted \cup {NewSock}
    /\ UNCHANGED <<supported_methods, response_id, responses, responses_mutex,
                   client, connecting, out, th>>
    /\ UNCHANGED <<music_sem, partialResponse, properties, wire, fed, ext>>

\* The listener accepts at most MaxInbound connections.
HandleNewClient == HandleNewClientUpTo(MaxInbound)

\* onMusicConnect, the onConnect callback handleNewClient registers on the
\* socket it was handed. The socket is already connected when the callback is
\* registered; whether the callback runs at all is up to AsyncTCP.
OnMusicConnect(s) ==
    /\ ~crashed
    /\ s \in accepted
    /\ sock[s].st = "connected"
    /\ accepted' = accepted \ {s}
    /\ music_mode' = TRUE
    /\ sock' = Closed(sock, client)
    /\ client' = NULL
    /\ music_sem' = 1
    /\ rx' = Deliverable(rx, sock')
    /\ devq' = Deliverable(devq, sock')
    /\ UNCHANGED <<supported_methods, response_id, responses, responses_mutex,
                   music_client, connecting, out, inbound, crashed, th>>
    /\ UNCHANGED <<partialResponse, properties, wire, fed, ext>>

\* ------------------------------------------------------------- the device
\* The shapes of a response line the device sends for a command id.
ReplyShapes == {"ok", "error", "short"}

\* onData, lines 411-594: what a parsed line with an id records for it
\* (NoResult: nothing is recorded).
Classify(shape) ==
    CASE shape = "ok" -> SUCCESS
      [] shape = "props21" -> SUCCESS
      [] shape = "error" -> ERROR
      [] shape \in {"short", "nonarray"} -> UNEXPECTED_RESPONSE
      [] OTHER -> NoResult

\* The device answers a command it received.
DeviceReply(d, shape) ==
    /\ ~crashed
    /\ d \in devq
    /\ devq' = devq \ {d}
    /\ rx' = rx \cup {[s |-> d.s, id |-> d.id, shape |-> shape]}
    /\ UNCHANGED <<session, sock, out, inbound, crashed, th>>
    /\ UNCHANGED aux

Insert(f, id, r) == [i \in DOMAIN f \cup {id} |-> IF i = id THEN r ELSE f[i]]

\* The caller threads that are inside the locked section of checkResponse.
InLockedSection == {t \in Threads : th[t].pc = "cr_locked"}

\* onData for one response line: responses[id] = outcome, with no lock taken.
\* A write that races with a thread inside the locked section is a data
\* race on the std::map: the entry is stored, or it is lost, or the map is
\* broken.
OnData(l) ==
    /\ ~crashed
    /\ l \in rx
    /\ sock[l.s].st = "connected"
    /\ rx' = rx \ {l}
    /\ LET r == Classify(l.shape)
           stored == IF r = NoResult THEN responses ELSE Insert(responses, l.id, r) IN
        IF InLockedSection = {} \/ r = NoResult
        THEN /\ responses' = stored
             /\ UNCHANGED crashed
        ELSE \E outcome \in {"stored", "lost", "broken"} :
                /\ responses' = IF outcome = "stored" THEN stored ELSE responses
                /\ crashed' = (outcome = "broken")
    /\ UNCHANGED <<supported_methods, response_id, responses_mutex, client, music_client,
                   music_mode, connecting, sock, out, devq, inbound, th>>
    /\ UNCHANGED aux

\* --------------------------------------------------------- specifications
ThreadStep(t, calls, limit) ==
    \/ SetterCall(t, calls, limit)
    \/ ConnectCallStart(t, calls, limit)
    \/ CommandStart(t)
    \/ SendEntry(t)
    \/ MusicWrite(t)
    \/ MusicTerm(t)
    \/ ConnectCheck(t)
    \/ ConnectBegin(t)
    \/ SendWait(t)
    \/ SendCheck(t)
    \/ SendWrite(t)
    \/ SendTerm(t)
    \/ Expire(t)
    \/ CheckLoop(t)
    \/ CheckFind(t)
    \/ CheckConn(t)
    \/ CommandReturn(t)
    \/ CallReturn(t)

EventStep ==
    \/ \E s \in SockIds : OnConnect(s)
    \/ \E s \in SockIds : OnMainClientError(s)
    \/ \E s \in SockIds : Drop(s)
    \/ \E s \in SockIds : OnMainClientDisconnect(s)
    \/ \E s \in SockIds : OnMusicDisconnect(s)
    \/ HandleNewClient
    \/ \E d \in devq, shape \in ReplyShapes : DeviceReply(d, shape)
    \/ \E l \in rx : OnData(l)

\* One caller thread and the event context (spec section 5), on a device
\* that advertises every method.
Init == InitWith({Methods})
Next == ThreadStep(1, PlainCalls, MaxCalls) \/ EventStep
Spec == Init /\ [][Next]_vars

\* The steps of a setter call that stays on the primary channel.
SetterStep(t, calls, limit) ==
    \/ SetterCall(t, calls, limit)
    \/ CommandStart(t)
    \/ SendEntry(t)
    \/ ConnectCheck(t)
    \/ ConnectBegin(t)
    \/ SendWait(t)
    \/ SendCheck(t)
    \/ SendWrite(t)
    \/ SendTerm(t)
    \/ Expire(t)
    \/ CheckLoop(t)
    \/ CheckFind(t)
    \/ CheckConn(t)
    \/ CommandReturn(t)
    \/ CallReturn(t)

\* Two caller threads on one session, one setter call each, on a primary
\* channel that connects and stays up.
NextTwo ==
    \/ \E t \in Threads : SetterStep(t, PlainCalls, 1)
    \/ \E s \in SockIds : OnConnect(s)
    \/ \E d \in devq : DeviceReply(d, "ok")
    \/ \E l \in rx : OnData(l)
SpecTwo == Init /\ [][NextTwo]_vars

\* One call of any setter with any arguments, for each capability set, on a
\* primary channel that connects and stays up.
InitGate == InitWith(CapConfigs)
NextGate ==
    \/ SetterStep(1, AllCalls, 1)
    \/ \E s \in SockIds : OnConnect(s)
    \/ \E d \in devq, shape \in ReplyShapes : DeviceReply(d, shape)
    \/ \E l \in rx : OnData(l)
SpecGate == InitGate /\ [][NextGate]_vars
\* The steps of a caller thread that switches the direct channel.
MusicStep(t, calls, limit) ==
    \/ MusicCallStart(t, calls, limit)
    \/ MusicPrelude(t)
    \/ SemTake(t)
    \/ MusicClose(t)
    \/ MusicOffReturn(t)
    \/ CommandStart(t)
    \/ SendEntry(t)
    \/ MusicWrite(t)
    \/ MusicTerm(t)
    \/ ConnectCheck(t)
    \/ ConnectBegin(t)
    \/ SendWait(t)
    \/ SendCheck(t)
    \/ SendWrite(t)
    \/ SendTerm(t)
    \/ Expire(t)
    \/ CheckLoop(t)
    \/ CheckFind(t)
    \/ CheckConn(t)
    \/ CommandReturn(t)
    \/ CallReturn(t)

\* One caller that switches the direct channel on and off, the device that
\* connects back to the listener, and the socket callbacks, with timers
\* that may fail to be created.
InitMusic == InitWith({Methods \cup {"set_music"}, Methods})
NextMusic ==
    \/ MusicStep(1, MusicCalls, MaxCalls)
    \/ \E s \in SockIds : OnConnect(s)
    \/ \E s \in SockIds : OnMainClientDisconnect(s)
    \/ \E s \in SockIds : OnMainClientDisconnectNoTimer(s)
    \/ \E s \in SockIds : OnMusicDisconnect(s)
    \/ \E s \in SockIds : OnMusicDisconnectNoTimer(s)
    \/ \E s \in SockIds : CallbackReturn(s)
    \/ \E s \in SockIds : Drop(s)
    \/ HandleNewClient
    \/ \E s \in SockIds : OnMusicConnect(s)
    \/ \E d \in devq : DeviceReply(d, "ok")
    \/ \E l \in rx : OnData(l)
SpecMusic == InitMusic /\ [][NextMusic]_vars

\* ----------------------------------------------------------------- claims
\* The command frames the running call of thread t has written.
FramesOf(t) ==
    {out[i] : i \in {j \in 1..Len(out) :
        out[j].k = "F" /\ out[j].t = t /\ out[j].n = th[t].ncalls}}

\* The methods a setter call would send when nothing stops it.
WouldSend(c) ==
    {Dispatch(c.lt, MainOf(c.op), supported_methods).cmds[i] :
        i \in 1..Len(Dispatch(c.lt, MainOf(c.op), supported_methods).cmds)}

\* A setter call of thread t has returned to the user.
SetterDone(t) == th[t].pc = "done" /\ th[t].cur.op # "connect"

\* C1: a setter call with arguments in range that would send a method whose
\* capability bit is false writes no frame of that method and does not
\* report SUCCESS: it returns METHOD_NOT_SUPPORTED, or the failure of a
\* supported command it sent before. (The code does not keep this: SpecGate
\* reaches a state that violates it.)
C1_UnsupportedNeverSent ==
    \A t \in Threads :
        (SetterDone(t) /\ ValidArgs(th[t].cur)
            /\ \E m \in WouldSend(th[t].cur) : m \notin supported_methods)
        => /\ th[t].result # SUCCESS
           /\ \A f \in FramesOf(t) : f.m \in supported_methods

\* C2: a setter call with an argument out of its documented range returns
\* INVALID_PARAMS and writes no frame, whatever the capability bits are. (The
\* code does not keep this: SpecGate reaches a state that violates it.)
C2_InvalidParamsFirst ==
    \A t \in Threads :
        (SetterDone(t) /\ ~ValidArgs(th[t].cur))
        => /\ th[t].result = INVALID_PARAMS
           /\ FramesOf(t) = {}

\* Everything the running call of thread t has written, in order.
CallTokens(t) == SelectSeq(out, LAMBDA x : x.t = t /\ x.n = th[t].ncalls)

\* The channel the call of thread t took is the session's active channel and
\* its socket is connected.
ChannelUp(t) ==
    \/ th[t].chan = "primary" /\ client = th[t].via /\ is_connected
    \/ th[t].chan = "direct" /\ music_client = th[t].via /\ is_connected_music

\* A single-channel setter call with arguments in range whose method is
\* supported.
SingleSupported(c) ==
    /\ c.lt \in {MAIN_LIGHT, BACKGROUND_LIGHT}
    /\ ValidArgs(c)
    /\ WouldSend(c) \subseteq supported_methods

InCheckResponse(t) == th[t].pc \in {"cr_test", "cr_locked", "cr_conn"}

\* C4: on the primary channel a caller whose outcome was recorded before its
\* timeout elapsed is given that outcome: at the step where the timeout of a
\* waiting caller elapses, no outcome for its id sits unread in the table.
\* (The code does not keep this: the table is read once per poll, and the
\* loop test that follows an elapsed timeout returns TIMEOUT without reading
\* it again.)
C4_RecordedOutcomeReturned ==
    [][\A t \in Threads :
        (InCheckResponse(t) /\ ~th[t].expired /\ th'[t].expired)
        => th[t].myid \notin DOMAIN responses]_vars

\* C5: a caller inside checkResponse waits on the id that was assigned to its
\* own command. (The code does not keep this with two callers: SpecTwo
\* reaches a state that violates it.)
C5_WaitsOnOwnId ==
    \A t \in Threads : InCheckResponse(t) => th[t].waitid = th[t].myid

\* C6: the responses table changes only in a step of a thread that holds
\* responses_mutex. (The code does not keep this: onData writes the table
\* without the lock.)
C6_TableUnderLock ==
    [][responses' # responses
        => \E t \in Threads : responses_mutex = {t} /\ th'[t] # th[t]]_vars

\* No call is running, no command is unanswered and no response line is on
\* its way.
Quiescent ==
    /\ \A t \in Threads : th[t].pc = "idle"
    /\ rx = {}
    /\ devq = {}

\* C7: once every call has returned and no more bytes arrive, the responses
\* table is empty. (The code does not keep this: the entry of a response that
\* comes after its waiter returned is never erased.)
C7_TableDrains == Quiescent => DOMAIN responses = {}

\* A step of a send_command call of thread t that took the direct channel.
DirectStep(t) ==
    /\ th'[t] # th[t]
    /\ th[t].pc \in {"sc_entry", "m_write", "m_term"}
    /\ th'[t].chan = "direct"

C9_OneAttemptInFlight ==
    [][\A t \in Threads :
        (th[t].pc = "co_set" /\ th'[t].pc # "co_set") => ~connecting]_vars

\* C10: connect() returns CONNECTION_FAILED only after max_retry attempts.
\* (The code does not keep this: connect() makes one attempt.)
C10_RetriesBeforeFailure ==
    \A t \in Threads :
        (th[t].pc = "done" /\ th[t].cur.op = "connect"
            /\ th[t].result = CONNECTION_FAILED)
        => th[t].attempts = max_retry

\* The primary sockets that are connecting or connected.
LivePrimary == {s \in SockIds : sock[s].role = "main" /\ sock[s].st \in {"connecting", "connected"}}

\* The direct-channel sockets that are connected.
LiveDirect == {s \in SockIds : sock[s].role = "music" /\ sock[s].st = "connected"}

\* The direct channel is active.
DirectActive == music_mode /\ is_connected_music

\* C11: at most one primary socket and at most one direct-channel socket are
\* live, and while the direct channel is active no primary socket is
\* connected or connecting. (The code does not keep this: connect() opens a
\* primary socket whatever the state of the direct channel.)
C11_OneLiveChannel ==
    /\ Cardinality(LivePrimary) <= 1
    /\ Cardinality(LiveDirect) <= 1
    /\ DirectActive => LivePrimary = {}

\* C12: an inbound connection from the session's registered address is
\* attached as its direct-channel socket and the session's primary socket is
\* closed. (The code does not keep this when the session has no primary
\* socket: handleNewClient dereferences the null pointer.)
C12_InboundAttached ==
    [][inbound' # inbound =>
        /\ ~crashed'
        /\ music_client' \in SockIds \ {music_client}
        /\ sock'[music_client'] = [role |-> "music", st |-> "connected"]
        /\ LivePrimary' = {}]_vars

\* C13: the step that accepts and associates an inbound connection, on a
\* session that has a primary socket, releases the session's rendezvous
\* semaphore. (The code does not keep this: handleNewClient never gives
\* music_sem; only onMusicConnect does.)
C13_AcceptReleasesSemaphore ==
    [][(inbound' # inbound /\ client # NULL) => music_sem' = 1]_vars

\* C14: when enable_music_mode waits on the rendezvous semaphore it has
\* written the set_music command. (The code does not keep this: the wait
\* comes before set_music_command.)
C14_CommandBeforeWait ==
    \A t \in Threads :
        (th[t].cur = EnableCall /\ th[t].pc = "em_take") => FramesOf(t) # {}

C16_NoDeleteInCallback ==
    \A s \in SockIds : sock[s].st # "deleted_in_callback"

\* C17: is_connected() is true exactly when the active channel is connected:
\* the direct-channel socket in direct mode, the primary socket otherwise.
\* (The code does not keep this: is_connected() looks at the primary only.)
C17_IsConnectedActive ==
    is_connected <=> (IF music_mode THEN is_connected_music
                      ELSE client # NULL /\ sock[client].st = "connected")

\* ------------------------------------------------------- the frame reader
\* onData at the level of the byte stream. A byte is written as the lexical
\* unit it belongs to: the braces of the line's object, one unit per member of
\* the object, and the white space and terminator bytes. onData does nothing
\* with a byte before its line's terminator is in the accumulator except
\* append it, so a boundary inside a unit behaves as one between units.
LF == "LF"
TrimBytes == {"CR", "SP", "TAB"}

IdTokens == {"id1", "id2"}
ArrayTokens == {"r_ok", "r_ok_more", "r_full_num", "r_full_str", "r_full_22",
                "r_short", "r_empty"}
ResultTokens == ArrayTokens \cup {"r_string", "r_null"}
MethodTokens == {"m_props", "m_other"}
ParamsTokens == {"p_obj", "p_string"}
MemberTokens == IdTokens \cup ResultTokens \cup {"error"} \cup MethodTokens \cup ParamsTokens

\* cJSON items: a string, a number, or nothing (a null pointer).
Str(v) == [type |-> "string", s |-> v, n |-> 0]
Num(v) == [type |-> "number", s |-> "", n |-> v]
NoItem == [type |-> "none", s |-> "", n |-> 0]

\* atoi on the strings that occur in the lines below.
Atoi(v) ==
    CASE v = "0" -> 0 [] v = "1" -> 1 [] v = "2" -> 2 [] v = "3" -> 3 [] v = "10" -> 10
      [] v = "20" -> 20 [] v = "80" -> 80 [] v = "255" -> 255
      [] v = "300" -> 300 [] v = "4000" -> 4000
      [] OTHER -> 0

\* The name of the member a unit stands for.
KeyOf(tok) ==
    CASE tok \in IdTokens -> "id"
      [] tok \in ResultTokens -> "result"
      [] tok = "error" -> "error"
      [] tok \in MethodTokens -> "method"
      [] tok \in ParamsTokens -> "params"
      [] OTHER -> "none"

\* "id":1 and "id":2
valueint(tok) == IF tok = "id1" THEN 1 ELSE 2

\* The elements of a "result" array: ["ok"], ["ok",1], the 21 values of a
\* get_prop answer as numbers and as strings, 22 values, two values, none.
FullNum == <<Str("on"), Num(80), Num(4000), Num(255), Num(10), Num(20), Num(2),
             Num(1), Num(10), Num(1), Str("lamp"), Str("off"), Num(0), Num(4000),
             Num(3), Num(80), Num(255), Num(10), Num(20), Num(80), Num(1)>>
FullStr == <<Str("off"), Str("300"), Str("2"), Str("10"), Str("20"), Str("80"),
             Str("1"), Str("0"), Str(""), Str("0"), Str(""), Str("on"),
             Str("1"), Str(""), Str("2"), Str("10"), Str(""), Str(""), Str(""),
             Str(""), Str("0")>>
ArrayOf(tok) ==
    CASE tok = "r_ok" -> <<Str("ok")>>
      [] tok = "r_ok_more" -> <<Str("ok"), Num(1)>>
      [] tok = "r_full_num" -> FullNum
      [] tok = "r_full_str" -> FullStr
      [] tok = "r_full_22" -> FullStr \o <<Str("0")>>
      [] tok = "r_short" -> <<Str("on"), Str("80")>>
      [] OTHER -> <<>>

\* The members of a "params" object in a props notification.
ParamsOf(tok) ==
    [k \in {"power", "bright", "ct", "bg_lmode"} |->
        CASE k = "power" -> Str("on")
          [] k = "bright" -> Str("300")
          [] k = "ct" -> Num(4000)
          [] OTHER -> Str("3")]

\* The lines a device sends: an answer to a command (an id, then a result or
\* an error member, or neither), a notification, a line that is no JSON text,
\* an object followed by more bytes, and a blank line.
Answers ==
    {<<"{", id>> \o body \o <<"}">> :
        id \in IdTokens,
        body \in {<<tok>> : tok \in ResultTokens \cup {"error"}}
                 \cup {<<>>, <<"error", "r_short">>, <<"r_ok", "error">>}}
Documents ==
    Answers \cup {<<"{", "m_props", "p_obj", "}">>, <<"{", "m_props", "p_string", "}">>,
                  <<"{", "m_props", "}">>, <<"{", "m_other", "}">>,
                  <<"{", "id1", "r_ok">>, <<"{", "id1", "r_ok", "}", "}">>, <<>>}
Lines == {doc \o trail \o <<LF>> : doc \in Documents, trail \in {<<>>, <<"CR">>}}

\* std::string::find(char), substr(0, count), erase(0, count)
Find(str, b) ==
    IF \E i \in 1..Len(str) : str[i] = b
    THEN (CHOOSE i \in 1..Len(str) : str[i] = b /\ \A j \in 1..(i - 1) : str[j] # b) - 1
    ELSE NPOS
Min(a, b) == IF a <= b THEN a ELSE b
Substr(str, count) == SubSeq(str, 1, Min(count, Len(str)))
EraseFront(str, count) == SubSeq(str, Min(count, Len(str)) + 1, Len(str))

\* partialResponse.append(chunk, len); KeepChunk is a reader that drops what it
\* had accumulated
KeepChunk(acc, chunk) == chunk
AppendChunk(acc, chunk) == acc \o chunk

\* lines 405-407: pop_back while the last byte is '\r', ' ' or '\t'
RECURSIVE Trim(_)
Trim(line) ==
    IF line # <<>> /\ line[Len(line)] \in TrimBytes
    THEN Trim(SubSeq(line, 1, Len(line) - 1)) ELSE line

\* cJSON_Parse: the text is an object when it opens with a brace and closes
\* after a run of members, with or without spaces between them; bytes after
\* the closing brace are not looked at. Anything else gives a null root.
IsMember(tok) == tok \in MemberTokens
NoRoot == [ok |-> FALSE, members |-> <<>>]
Closing(line) ==
    {k \in 2..Len(line) : line[k] = "}" /\ \A j \in 2..(k - 1) : line[j] \in MemberTokens \cup {"SP"}}
Parse(line) ==
    IF Len(line) >= 2 /\ line[1] = "{" /\ Closing(line) # {}
    THEN [ok |-> TRUE,
          members |-> SelectSeq(SubSeq(line, 2, (CHOOSE k \in Closing(line) : TRUE) - 1),
                                IsMember)]
    ELSE NoRoot

\* cJSON_GetObjectItem: the first member of that name, "none" without one
GetObjectItem(root, key) ==
    LET at == {i \in DOMAIN root.members : KeyOf(root.members[i]) = key} IN
    IF at = {} THEN "none"
    ELSE root.members[CHOOSE i \in at : \A j \in at : i <= j]

\* cJSON_GetArrayItem: null beyond the end of the array
GetArrayItem(arr, index) == IF index + 1 \in DOMAIN arr THEN arr[index + 1] ELSE NoItem

\* static_cast to uint8_t, uint16_t; uint32_t holds every value used here
U8(v) == v % 256
U16(v) == v % 65536
ColorMode(v) ==
    CASE v = 1 -> "COLOR_MODE_RGB"
      [] v = 2 -> "COLOR_MODE_COLOR_TEMPERATURE"
      [] v = 3 -> "COLOR_MODE_HSV"
      [] OTHER -> "COLOR_MODE_UNKNOWN"
FromInt(kind, v) ==
    CASE kind = "u8" -> U8(v)
      [] kind = "u16" -> U16(v)
      [] kind = "u32" -> v
      [] kind = "mode" -> ColorMode(v)
      [] OTHER -> (v = 1)

\* lines 434-589: the member's new value from the array element at its
\* position; an element of another type leaves the member as it is.
FromArray(kind, item, old) ==
    IF kind = "on" THEN (IF item.type = "string" THEN item.s = "on" ELSE old)
    ELSE IF kind = "text" THEN (IF item.type = "string" THEN item.s ELSE old)
    ELSE IF item.type = "number" THEN FromInt(kind, item.n)
    ELSE IF item.type = "string" THEN FromInt(kind, Atoi(item.s))
    ELSE old
MergeResult(props, arr) ==
    [f \in FieldNames |->
        FromArray(Fields[PositionOf(f)].kind, GetArrayItem(arr, PositionOf(f) - 1), props[f])]

\* lines 601-735: a notification sets the members it names with a string;
\* MergeParamsReset is a reader that starts from an empty store
MergeParamsReset(props, params) ==
    [f \in FieldNames |->
        LET fld == Fields[PositionOf(f)] IN
        IF fld.key \in DOMAIN params
        THEN (IF params[fld.key].type = "string"
              THEN (IF fld.kind = "on" THEN params[fld.key].s = "on"
                    ELSE IF fld.kind = "text" THEN params[fld.key].s
                    ELSE FromInt(fld.kind, Atoi(params[fld.key].s)))
              ELSE NoProperties[f])
        ELSE NoProperties[f]]
FromParams(kind, item, old) ==
    IF item.type # "string" THEN old
    ELSE IF kind = "on" THEN item.s = "on"
    ELSE IF kind = "text" THEN item.s
    ELSE FromInt(kind, Atoi(item.s))
MergeParams(props, params) ==
    [f \in FieldNames |->
        LET fld == Fields[PositionOf(f)] IN
        IF fld.key \in DOMAIN params THEN FromParams(fld.kind, params[fld.key], props[f])
        ELSE props[f]]

\* uint16_t id = ...->valueint
IdOf(v) == v % IdModulus

\* cJSON_GetArraySize(result_array) < 21; TooShortNever is a reader without
\* the size test
TooShortNever(arr) == FALSE
TooShort(arr) == Len(arr) < PropertyCount

FirstIsOk(arr) ==
    LET firstItem == GetArrayItem(arr, 0) IN firstItem.type = "string" /\ firstItem.s = "ok"

\* responses[id] = r on the reader's state
Record(st, id, r) == [st EXCEPT !.responses = Insert(st.responses, id, r)]

\* Lines 410-740: what one parsed line does to the reader's state, and how
\* the loop goes on: to the next find ("next"), back to the loop test with
\* pos as it was ("continue"), or out of onData ("return").
HandleLine(st, root) ==
    IF ~root.ok THEN [st |-> st, flow |-> "next"]
    ELSE IF GetObjectItem(root, "id") # "none"
    THEN LET id == IdOf(valueint(GetObjectItem(root, "id")))
             result == GetObjectItem(root, "result") IN
         IF result # "none"
         THEN IF result \notin ArrayTokens
              THEN [st |-> Record(st, id, UNEXPECTED_RESPONSE), flow |-> "continue"]
              ELSE IF FirstIsOk(ArrayOf(result))
              THEN [st |-> Record(st, id, SUCCESS), flow |-> "next"]
              ELSE IF TooShort(ArrayOf(result))
              THEN [st |-> Record(st, id, UNEXPECTED_RESPONSE), flow |-> "continue"]
              ELSE [st |-> Record([st EXCEPT !.properties = MergeResult(@, ArrayOf(result))],
                                  id, SUCCESS),
                    flow |-> "next"]
         ELSE IF GetObjectItem(root, "error") # "none"
         THEN [st |-> Record(st, id, ERROR), flow |-> "next"]
         ELSE [st |-> st, flow |-> "next"]
    ELSE IF GetObjectItem(root, "method") = "m_props"
    THEN IF GetObjectItem(root, "params") # "p_obj"
         THEN [st |-> st, flow |-> "return"]
         ELSE [st |-> [st EXCEPT !.properties = MergeParams(@, ParamsOf("p_obj"))],
               flow |-> "next"]
    ELSE [st |-> st, flow |-> "next"]

\* The while loop of onData, entered with the value pos has.
RECURSIVE ReadLines(_, _)
ReadLines(st, pos) ==
    IF pos = NPOS THEN st
    ELSE LET line == Trim(Substr(st.partialResponse, pos))
             taken == [st EXCEPT !.partialResponse = EraseFront(@, pos + 1)]
             step == HandleLine(taken, IF line = <<>> THEN NoRoot ELSE Parse(line)) IN
         CASE step.flow = "return" -> step.st
           [] step.flow = "continue" -> ReadLines(step.st, pos)
           [] OTHER -> ReadLines(step.st, Find(step.st.partialResponse, LF))

\* void Yeelight::onData(AsyncClient *c, const void *data, const size_t len)
onData(st, chunk) ==
    LET appended == [st EXCEPT !.partialResponse = AppendChunk(@, chunk)] IN
    ReadLines(appended, Find(appended.partialResponse, LF))

Reader == [partialResponse |-> partialResponse, responses |-> responses,
           properties |-> properties]

\* AsyncTCP hands onData the next bytes of the stream: a chunk of any length.
OnDataChunk(len) ==
    /\ ~crashed
    /\ is_connected
    /\ len \in 1..Len(wire)
    /\ LET chunk == SubSeq(wire, 1, len)
           after == onData(Reader, chunk) IN
        /\ partialResponse' = after.partialResponse
        /\ responses' = after.responses
        /\ properties' = after.properties
        /\ wire' = SubSeq(wire, len + 1, Len(wire))
        /\ fed' = Append(fed, chunk)
    /\ UNCHANGED <<supported_methods, response_id, responses_mutex, client, music_client,
                   music_mode, connecting, sock, out, rx, devq, inbound, crashed, th,
                   music_sem, accepted, ext>>

\* A session whose device sends one line once the primary is connected.
InitData ==
    /\ InitSession({Methods})
    /\ InitExt
    /\ client # NULL
    /\ music_sem = 0
    /\ accepted = {}
    /\ partialResponse = <<>>
    /\ properties = NoProperties
    /\ wire \in Lines
    /\ fed = <<>>
NextData ==
    \/ \E s \in SockIds : OnConnect(s)
    \/ \E len \in 1..MaxChunk : OnDataChunk(len)
SpecData == InitData /\ [][NextData]_vars

\* -------------------------------------------------- claims on the reader
RECURSIVE Flatten(_)
Flatten(chunks) == IF chunks = <<>> THEN <<>> ELSE Head(chunks) \o Flatten(Tail(chunks))

\* The reader of a session just constructed.
EmptyReader == [partialResponse |-> <<>>, responses |-> <<>>, properties |-> NoProperties]

\* The reader after the bytes delivered so far arrived as one chunk.
Whole == onData(EmptyReader, Flatten(fed))

\* The line that has been delivered, once all of it has been: without its
\* terminator and trailing white space, and as the object it parses to.
Delivered == wire = <<>> /\ fed # <<>>
DeliveredLine == Trim(Substr(Flatten(fed), Len(Flatten(fed)) - 1))
DeliveredRoot == IF DeliveredLine = <<>> THEN NoRoot ELSE Parse(DeliveredLine)
HasId == DeliveredRoot.ok /\ GetObjectItem(DeliveredRoot, "id") # "none"
DeliveredId == valueint(GetObjectItem(DeliveredRoot, "id"))
DeliveredResult == GetObjectItem(DeliveredRoot, "result")
ResultItems == ArrayOf(DeliveredResult)
OkShape == DeliveredResult \in ArrayTokens /\ ResultItems # <<>> /\ ResultItems[1] = Str("ok")
FullShape == DeliveredResult \in ArrayTokens /\ ~OkShape /\ Len(ResultItems) >= 21
ErrorShape == DeliveredResult = "none" /\ GetObjectItem(DeliveredRoot, "error") # "none"
RecordedFor(id, r) == id \in DOMAIN responses /\ responses[id] = r

\* C18: however the bytes of a line are split into chunks, the Pending-Response
\* Table and the Property Store (and the accumulator) are what delivering the
\* same bytes in one chunk gives; and before the terminator has been
\* delivered nothing is recorded.
C18_ChunkSplitEquivalence ==
    /\ Reader = Whole
    /\ Find(Flatten(fed), LF) = NPOS =>
          responses = <<>> /\ properties = NoProperties
C18_Witness ==
    /\ Delivered
    /\ Len(fed) >= 3
    /\ responses # <<>>
    /\ properties # NoProperties

\* C19: a delivered line with an id records SUCCESS when its result array
\* starts with "ok"; merges a result array of at least 21 values (not starting
\* with "ok") into the Property Store by position and records SUCCESS; records
\* ERROR for an error member (and no result); records UNEXPECTED_RESPONSE for
\* a result that is not an array or is a shorter array not starting with "ok".
C19_Classification ==
    (Delivered /\ HasId) =>
        /\ OkShape => RecordedFor(DeliveredId, SUCCESS) /\ properties = NoProperties
        /\ FullShape =>
              /\ RecordedFor(DeliveredId, SUCCESS)
              /\ \A i \in 1..21 :
                    properties[Fields[i].name] =
                        FromArray(Fields[i].kind, ResultItems[i], NoProperties[Fields[i].name])
        /\ ErrorShape => RecordedFor(DeliveredId, ERROR)
        /\ (DeliveredResult # "none" /\ ~OkShape /\ ~FullShape) =>
              RecordedFor(DeliveredId, UNEXPECTED_RESPONSE)
C19_Witness ==
    /\ Delivered
    /\ HasId
    /\ FullShape
    /\ properties["bright"] = 44
    /\ properties["bg_color_mode"] = "COLOR_MODE_COLOR_TEMPERATURE"

\* C20: a delivered line that parses and has an id, and is none of the
\* success, full-property and error shapes, records UNEXPECTED_RESPONSE for
\* its id. (The code records nothing for an id with neither a result nor an
\* error member.)
C20_OtherShapesUnexpected ==
    (Delivered /\ HasId /\ ~OkShape /\ ~FullShape /\ ~ErrorShape) =>
        RecordedFor(DeliveredId, UNEXPECTED_RESPONSE)

\* ------------------------------------------------- two lines on the wire
\* The device sends two lines one after the other. The first: an answer that
\* is recorded as SUCCESS, answers that are recorded as UNEXPECTED_RESPONSE, a
\* text that is no JSON, a notification without params, an id alone, a
\* full-property answer, a props notification.
FirstLines ==
    {<<"{", "id1", "r_ok", "}", LF>>,
     <<"{", "id1", "r_null", "}", LF>>,
     <<"{", "id1", "r_short", "}", "CR", LF>>,
     <<"{", "id1", "r_ok", LF>>,
     <<"{", "m_props", "}", LF>>,
     <<"{", "id1", "}", LF>>,
     <<"{", "id1", "r_full_num", "}", LF>>,
     <<"{", "m_props", "p_obj", "}", LF>>}

\* The second: answers as the device writes them (a space after the id), a
\* full-property answer, an error, a result that is no array, a props
\* notification, and a text that is no JSON but ends in one.
SecondLines ==
    {<<"{", "id2", "SP", "r_ok", "}", LF>>,
     <<"{", "id2", "SP", "r_full_str", "}", LF>>,
     <<"{", "id2", "error", "}", "CR", LF>>,
     <<"{", "id2", "r_string", "}", LF>>,
     <<"{", "m_props", "p_obj", "}", LF>>,
     <<"x", "x", "x", "x", "x", "{", "id2", "r_ok", "}", LF>>}

Streams == {a \o b : a \in FirstLines, b \in SecondLines}

InitLines ==
    /\ InitSession({Methods})
    /\ InitExt
    /\ client # NULL
    /\ music_sem = 0
    /\ accepted = {}
    /\ partialResponse = <<>>
    /\ properties = NoProperties
    /\ wire \in Streams
    /\ fed = <<>>
NextLines ==
    \/ \E s \in SockIds : OnConnect(s)
    \/ \E len \in 1..MaxChunk : OnDataChunk(len)
SpecLines == InitLines /\ [][NextLines]_vars

\* The bytes of the stream, and its first and second line with terminator.
Stream == Flatten(fed) \o wire
FirstLine == Substr(Stream, Find(Stream, LF) + 1)
SecondLine == EraseFront(Stream, Find(Stream, LF) + 1)
Text(line) == Trim(Substr(line, Len(line) - 1))
Malformed(line) == Text(line) # <<>> /\ ~Parse(Text(line)).ok

\* The reader after each line of the stream was handed to it by itself.
AfterFirst == onData(EmptyReader, FirstLine)
LineByLine == onData(AfterFirst, SecondLine)

\* C21: a line that is no JSON leaves the table and the store as they were,
\* and a line after it is processed as if the line had not been there. (The
\* code does not keep the first half for a line that follows an answer
\* recorded as UNEXPECTED_RESPONSE in the same chunk: see C29.)
C21_MalformedDropped ==
    (Delivered /\ Len(Stream) > Len(FirstLine)) =>
        /\ Malformed(FirstLine) =>
              /\ responses = onData(EmptyReader, SecondLine).responses
              /\ properties = onData(EmptyReader, SecondLine).properties
        /\ Malformed(SecondLine) =>
              /\ responses = AfterFirst.responses
              /\ properties = AfterFirst.properties

\* C29: every line is taken at its own terminator, whatever the lines before
\* it were: when the first line is recorded as UNEXPECTED_RESPONSE, the table
\* and the store end as they do when each line is handed to the reader by
\* itself, so the second line is recorded under its own id with its own outcome.
FirstUnexpected ==
    LET rs == AfterFirst.responses IN
    \E id \in DOMAIN rs : rs[id] = UNEXPECTED_RESPONSE
C29_LinesAtOwnTerminator ==
    (Delivered /\ FirstUnexpected /\ ~Malformed(SecondLine)) =>
        /\ responses = LineByLine.responses
        /\ properties = LineByLine.properties

\* C22: a props notification changes only the fields of the Property Store
\* that its params object names and leaves the other fields and the
\* Pending-Response Table as they were; a full-property answer of 21 values
\* gives every one of the 21 fields the value at its position. (Checked for a
\* second frame that arrives after a frame that filled the store.)
SecondRoot == Parse(Text(SecondLine))
FirstFillsStore == AfterFirst.properties # NoProperties
NamedFields == {f \in FieldNames : Fields[PositionOf(f)].key \in DOMAIN ParamsOf("p_obj")}
ValueOfItem(item) == IF item.type = "number" THEN item.n ELSE Atoi(item.s)
ValueAt(i, arr) ==
    CASE Fields[i].kind = "on" -> arr[i].s = "on"
      [] Fields[i].kind = "text" -> arr[i].s
      [] Fields[i].kind = "u8" -> ValueOfItem(arr[i]) % 256
      [] Fields[i].kind = "u16" -> ValueOfItem(arr[i]) % 65536
      [] Fields[i].kind = "u32" -> ValueOfItem(arr[i])
      [] Fields[i].kind = "mode" -> ColorMode(ValueOfItem(arr[i]))
      [] OTHER -> ValueOfItem(arr[i]) = 1
ModeCode(mode) ==
    CASE mode = "FLOW_COLOR" -> 1
      [] mode = "FLOW_COLOR_TEMPERATURE" -> 2
      [] OTHER -> 7
ActionCode(action) ==
    CASE action = "FLOW_RECOVER" -> 0
      [] action = "FLOW_STAY" -> 1
      [] OTHER -> 2
FlowActions == {"FLOW_RECOVER", "FLOW_STAY", "FLOW_OFF"}

\* Flow::add_rgb, add_ct, add_sleep: the flow_expression pushed
add_rgb(duration, value, brightness) ==
    [duration |-> duration, mode |-> "FLOW_COLOR", value |-> value, brightness |-> brightness]
add_ct(duration, color_temperature, brightness) ==
    [duration |-> duration, mode |-> "FLOW_COLOR_TEMPERATURE", value |-> color_temperature,
     brightness |-> brightness]
add_sleep(duration) ==
    [duration |-> duration, mode |-> "FLOW_SLEEP", value |-> 0, brightness |-> 0]

\* The flows the application builds: a pattern of steps, repeated up to a
\* number of steps.
Patterns ==
    {<<add_rgb(500, 16711680, 100), add_rgb(500, 65280, 1)>>,
     <<add_ct(1000, 4000, 50), add_sleep(300), add_rgb(50, 255, 100)>>}
Cycle(pattern, n) == [i \in 1..n |-> pattern[((i - 1) % Len(pattern)) + 1]]
Flows ==
    {[steps |-> Cycle(pattern, n), count |-> count, action |-> action] :
        pattern \in Patterns, n \in 0..MaxSteps, count \in {0, 3}, action \in FlowActions}

\* uint8_t Flow::get_size() const { return flow.size(); }
get_size(f) == Len(f.steps) % 256

\* lines 897-900: the loop over flow[0..size-1], each step followed by a comma
RECURSIVE FlowLoop(_, _, _)
FlowLoop(steps, i, size) ==
    IF i >= size THEN <<>>
    ELSE <<ToString(steps[i + 1].duration), ",", ToString(ModeCode(steps[i + 1].mode)), ",",
           ToString(steps[i + 1].value), ",", ToString(steps[i + 1].brightness), ",">>
         \o FlowLoop(steps, i + 1, size)

\* flowExpression.pop_back()
pop_back(str) == SubSeq(str, 1, Len(str) - 1)

\* start_cf_command(count, action, size, flow): the params array
start_cf_command(count, action, size, steps) ==
    [ret |-> "sent", count |-> count, action |-> ActionCode(action),
     flowExpression |-> pop_back(FlowLoop(steps, 0, size))]

\* start_flow(flow, MAIN_LIGHT) up to the call of send_command: the gate, the
\* size test, then the params built from get_count(), getAction(), get_size(), get_flow()
start_flow ==
    /\ ~crashed
    /\ cf = NoCf
    /\ cf' = IF {"start_cf", "bg_start_cf"} \cap supported_methods = {}
             THEN [NoCf EXCEPT !.ret = METHOD_NOT_SUPPORTED]
             ELSE IF get_size(flow) = 0
             THEN [NoCf EXCEPT !.ret = INVALID_PARAMS]
             ELSE start_cf_command(flow.count, flow.action, get_size(flow), flow.steps)
    /\ UNCHANGED <<session, sock, out, rx, devq, inbound, crashed, th, flow>>
    /\ UNCHANGED <<music_sem, accepted, partialResponse, properties, wire, fed>>
    /\ UNCHANGED <<packet, device, objects, devices, retire, partialFrom, music_mode_server>>

InitFlow ==
    /\ InitSession({Methods \cup {"start_cf"}, Methods})
    /\ client # NULL
    /\ music_sem = 0
    /\ accepted = {}
    /\ partialResponse = <<>>
    /\ properties = NoProperties
    /\ wire = <<>>
    /\ fed = <<>>
    /\ flow \in Flows
    /\ cf = NoCf
    /\ InitDiscovery
    /\ InitRegistry
    /\ InitRetire
    /\ partialFrom = <<>>
    /\ music_mode_server = NULL
NextFlow ==
    \/ \E s \in SockIds : OnConnect(s)
    \/ start_flow
SpecFlow == InitFlow /\ [][NextFlow]_vars

\* The fields of the steps in order, and the fields of an encoded string.
RECURSIVE StepFields(_)
StepFields(steps) ==
    IF steps = <<>> THEN <<>>
    ELSE <<ToString(Head(steps).duration), ToString(ModeCode(Head(steps).mode)),
           ToString(Head(steps).value), ToString(Head(steps).brightness)>>
         \o StepFields(Tail(steps))
IsField(tok) == tok # ","
FieldsOf(str) == SelectSeq(str, IsField)
CommasBetween(str) ==
    /\ Len(str) % 2 = 1
    /\ \A i \in 1..Len(str) : (str[i] = ",") <=> (i % 2 = 0)

\* C23: for every non-empty flow the params are the count, the action's code
\* and a string that holds, for each step in order, duration, kind code, value
\* and brightness, joined by commas with none at the end: 4 fields per step.
\* The flow of the specification's example gives its string.
C23_FlowEncoding ==
    (cf.ret = "sent" /\ flow.steps # <<>>) =>
        /\ cf.count = flow.count
        /\ cf.action = ActionCode(flow.action)
        /\ CommasBetween(cf.flowExpression)
        /\ FieldsOf(cf.flowExpression) = StepFields(flow.steps)
        /\ Len(FieldsOf(cf.flowExpression)) = 4 * Len(flow.steps)
        /\ (flow.steps = <<add_rgb(500, 16711680, 100), add_rgb(500, 65280, 1)>>) =>
              cf.flowExpression = <<"500", ",", "1", ",", "16711680", ",", "100", ",",
                                    "500", ",", "1", ",", "65280", ",", "1">>

\* ------------------------------------------------------------- discovery
\* Method names that parseDiscoveryResponse looks for in the support line
\* (15 of its 37), and their characters.
CheckedNames ==
    {"get_prop", "set_power", "set_rgb", "set_hsv", "set_bright",
     "toggle", "start_cf", "set_music", "bg_set_rgb", "bg_set_power",
     "bg_toggle", "dev_toggle", "bg_start_cf", "adjust_bright", "bg_adjust_bright"}
Chars(name) ==
    CASE name = "get_prop" -> <<"g", "e", "t", "_", "p", "r", "o", "p">>
      [] name = "set_power" -> <<"s", "e", "t", "_", "p", "o", "w", "e", "r">>
      [] name = "set_rgb" -> <<"s", "e", "t", "_", "r", "g", "b">>
      [] name = "set_hsv" -> <<"s", "e", "t", "_", "h", "s", "v">>
      [] name = "set_bright" -> <<"s", "e", "t", "_", "b", "r", "i", "g", "h", "t">>
      [] name = "toggle" -> <<"t", "o", "g", "g", "l", "e">>
      [] name = "start_cf" -> <<"s", "t", "a", "r", "t", "_", "c", "f">>
      [] name = "set_music" -> <<"s", "e", "t", "_", "m", "u", "s", "i", "c">>
      [] name = "bg_set_rgb" -> <<"b", "g", "_", "s", "e", "t", "_", "r", "g", "b">>
      [] name = "bg_set_power" -> <<"b", "g", "_", "s", "e", "t", "_", "p", "o", "w", "e", "r">>
      [] name = "bg_toggle" -> <<"b", "g", "_", "t", "o", "g", "g", "l", "e">>
      [] name = "dev_toggle" -> <<"d", "e", "v", "_", "t", "o", "g", "g", "l", "e">>
      [] name = "bg_start_cf" -> <<"b", "g", "_", "s", "t", "a", "r", "t", "_", "c", "f">>
      [] name = "adjust_bright" -> <<"a", "d", "j", "u", "s", "t", "_", "b", "r", "i", "g", "h", "t">>
      [] name = "bg_adjust_bright" -> <<"b", "g", "_", "a", "d", "j", "u", "s", "t", "_", "b", "r", "i", "g", "h", "t">>
      [] OTHER -> <<>>

\* The support lines of the discovery responses: up to MaxNames different
\* names separated by one space.
SupportLists ==
    UNION {{names \in [1..n -> CheckedNames] : \A i, j \in 1..n : names[i] = names[j] => i = j}
           : n \in 0..MaxNames}
RECURSIVE JoinNames(_)
JoinNames(names) ==
    IF names = <<>> THEN <<>>
    ELSE IF Len(names) = 1 THEN Chars(names[1])
    ELSE Chars(names[1]) \o <<" ">> \o JoinNames(Tail(names))

\* sscanf(support, "%511[^\r\n]", supportStr)
ScanLine(str) == Substr(str, ScanWidth)

\* supportList.find(name) != std::string::npos
Contains(str, sub) ==
    \E at \in 0..(Len(str) - Len(sub)) : SubSeq(str, at + 1, at + Len(sub)) = sub

\* The udp packet of a device arrives.
ReceivePacket(names) ==
    /\ ~crashed
    /\ packet = NoPacket
    /\ packet' = [support |-> TRUE, names |-> names]
    /\ UNCHANGED <<session, sock, out, rx, devq, inbound, crashed, th>>
    /\ UNCHANGED <<music_sem, accepted, partialResponse, properties, wire, fed>>
    /\ UNCHANGED <<flow, cf, device, objects, devices, retire, partialFrom, music_mode_server>>

\* YeelightDevice Yeelight::parseDiscoveryResponse(const char *response), the
\* capability bits. The function starts with memset(&device, 0, sizeof(device))
\* on a struct that holds std::string members: the build either goes on with
\* empty strings or fails when a string is used.
parseDiscoveryResponse ==
    /\ ~crashed
    /\ packet # NoPacket
    /\ device = NoDevice
    /\ \E build \in {"goes_on", "fails"} :
        IF build = "fails"
        THEN /\ crashed' = TRUE
             /\ UNCHANGED device
        ELSE /\ UNCHANGED crashed
             /\ LET supportList == ScanLine(JoinNames(packet.names)) IN
                device' = [parsed |-> TRUE,
                           supported_methods |->
                               IF packet.support
                               THEN {m \in CheckedNames : Contains(supportList, Chars(m))}
                               ELSE {}]
    /\ UNCHANGED <<session, sock, out, rx, devq, inbound, th>>
    /\ UNCHANGED <<music_sem, accepted, partialResponse, properties, wire, fed>>
    /\ UNCHANGED <<flow, cf, packet, objects, devices, retire, partialFrom, music_mode_server>>

InitDiscover == InitWith({{}})
NextDiscover ==
    \/ \E names \in SupportLists : ReceivePacket(names)
    \/ parseDiscoveryResponse
SpecDiscover == InitDiscover /\ [][NextDiscover]_vars

\* C24: the capability bit of a method is true after parseDiscoveryResponse
\* exactly when the method is one of the names of the support line; a name
\* that is only part of a listed name is not set.
Listed == {packet.names[i] : i \in DOMAIN packet.names}
C24_BitsAreListedNames ==
    device.parsed => device.supported_methods = Listed

\* ------------------------------------------------- objects and registry
\* What the device at an address advertises in its discovery responses.
Advertised(a) ==
    IF a % 2 = 1 THEN {"set_power", "set_rgb"} ELSE {"set_power", "bg_set_power"}

\* A YeelightDevice descriptor that discovery produced for an address.
Descriptor(a) == [ip |-> a, supported_methods |-> Advertised(a)]

\* devices[ip32] = this
Register(reg, a, y) == [k \in DOMAIN reg \cup {a} |-> IF k = a THEN y ELSE reg[k]]

\* devices.erase(it) when it->second == this
Unregister(reg, a, y) ==
    IF a \in DOMAIN reg /\ reg[a] = y THEN [k \in DOMAIN reg \ {a} |-> reg[k]] ELSE reg

\* The loop "while (!refreshedMethods && current_retries < max_retry)
\* refreshSupportedMethods()": no pass when refreshedMethods is set; otherwise
\* a response from the object's address arrives in one of the passes
\* (answered) or in none.
Refreshed(obj, answered) ==
    IF ~obj.refreshedMethods /\ answered
    THEN [obj EXCEPT !.supported_methods = Advertised(obj.ip), !.refreshedMethods = TRUE,
                     !.origin = obj.ip]
    ELSE obj

RegistryStep ==
    /\ ~crashed
    /\ UNCHANGED <<session, sock, out, rx, devq, inbound, crashed, th>>
    /\ UNCHANGED <<music_sem, accepted, partialResponse, properties, wire, fed>>
    /\ UNCHANGED <<flow, cf, packet, device, retire, partialFrom>>

\* Yeelight::Yeelight()
Construct(y) ==
    /\ objects[y].state = "none"
    /\ objects' = [objects EXCEPT ![y] = [NoObject EXCEPT !.state = "alive"]]
    /\ UNCHANGED devices
    /\ UNCHANGED music_mode_server
    /\ RegistryStep

\* Yeelight::Yeelight(const uint8_t ip[4], uint16_t port)
ConstructIp(y, a, answered) ==
    /\ objects[y].state = "none"
    /\ devices' = Register(devices, a, y)
    /\ objects' = [objects EXCEPT
                      ![y] = Refreshed([NoObject EXCEPT !.state = "alive", !.ip = a], answered)]
    /\ UNCHANGED music_mode_server
    /\ RegistryStep

\* Yeelight::Yeelight(const YeelightDevice &device)
ConstructDevice(y, d) ==
    /\ objects[y].state = "none"
    /\ devices' = Register(devices, d.ip, y)
    /\ objects' = [objects EXCEPT
                      ![y] = [NoObject EXCEPT !.state = "alive", !.ip = d.ip,
                                              !.supported_methods = d.supported_methods,
                                              !.origin = d.ip]]
    /\ UNCHANGED music_mode_server
    /\ RegistryStep

\* ResponseType Yeelight::connect(const uint8_t *ip, uint16_t port)
ConnectIp(y, a, answered) ==
    /\ objects[y].state = "alive"
    /\ devices' = Register(devices, a, y)
    /\ objects' = [objects EXCEPT ![y] = Refreshed([objects[y] EXCEPT !.ip = a], answered)]
    /\ UNCHANGED music_mode_server
    /\ RegistryStep

\* ResponseType Yeelight::connect(const YeelightDevice &device)
ConnectDevice(y, d) ==
    /\ objects[y].state = "alive"
    /\ devices' = Register(devices, d.ip, y)
    /\ objects' = [objects EXCEPT ![y].ip = d.ip,
                                  ![y].supported_methods = d.supported_methods,
                                  ![y].origin = d.ip]
    /\ UNCHANGED music_mode_server
    /\ RegistryStep

\* Yeelight::~Yeelight(): the object leaves the registry; lines 92-96 end and
\* delete the listener when there is one, whichever object is destroyed
Destroy(y) ==
    /\ objects[y].state = "alive"
    /\ devices' = Unregister(devices, objects[y].ip, y)
    /\ objects' = [objects EXCEPT ![y].state = "destroyed"]
    /\ music_mode_server' = NULL
    /\ RegistryStep

InitObjects == InitWith({{}})
NextObjects ==
    \/ \E y \in Objects : Construct(y)
    \/ \E y \in Objects, a \in Addresses, answered \in BOOLEAN : ConstructIp(y, a, answered)
    \/ \E y \in Objects, a \in Addresses : ConstructDevice(y, Descriptor(a))
    \/ \E y \in Objects, a \in Addresses, answered \in BOOLEAN : ConnectIp(y, a, answered)
    \/ \E y \in Objects, a \in Addresses : ConnectDevice(y, Descriptor(a))
    \/ \E y \in Objects : Destroy(y)
SpecObjects == InitObjects /\ [][NextObjects]_vars

\* C25: the capability bits of a session that are true were advertised for the
\* session's current address: after connect to another address no bit learned
\* for the previous address is left to gate commands.
C25_CapabilitiesOfCurrentAddress ==
    \A y \in Objects :
        (objects[y].state = "alive" /\ objects[y].supported_methods # {}) =>
            /\ objects[y].origin = objects[y].ip
            /\ objects[y].supported_methods \subseteq Advertised(objects[y].ip)

\* C26: no registry entry refers to a destroyed session.
C26_NoEntryForDestroyed ==
    \A a \in DOMAIN devices : objects[devices[a]].state = "alive"

\* ------------------------------------------------ the id counter, by step
\* send_command, lines 212-223, with "response_id++" as the two accesses it
\* is: the read of the counter for the command's id, and the write of that
\* value plus one. No lock is held between them.
SendCheckRead(t) ==
    /\ At(t, "sc_check")
    /\ th' = IF ~is_connected THEN CommandResult(t, CONNECTION_LOST)
             ELSE [th EXCEPT ![t].pc = "sc_inc", ![t].myid = response_id,
                             ![t].chan = "primary", ![t].via = client]
    /\ UNCHANGED <<session, sock, out, rx, devq, inbound, crashed>>
    /\ UNCHANGED aux
SendIncrement(t) ==
    /\ At(t, "sc_inc")
    /\ response_id' = NextId(th[t].myid)
    /\ th' = [th EXCEPT ![t].pc = "sc_write"]
    /\ UNCHANGED <<supported_methods, responses, responses_mutex, client, music_client,
                   music_mode, connecting, sock, out, rx, devq, inbound, crashed>>
    /\ UNCHANGED aux

\* Two caller threads on one session, one setter call each.
IdStep(t, calls, limit) ==
    \/ SetterCall(t, calls, limit)
    \/ CommandStart(t)
    \/ SendEntry(t)
    \/ ConnectCheck(t)
    \/ ConnectBegin(t)
    \/ SendWait(t)
    \/ SendCheckRead(t)
    \/ SendIncrement(t)
    \/ SendWrite(t)
    \/ SendTerm(t)
    \/ Expire(t)
    \/ CheckLoop(t)
    \/ CheckFind(t)
    \/ CheckConn(t)
    \/ CommandReturn(t)
    \/ CallReturn(t)
NextIds ==
    \/ \E t \in Threads : IdStep(t, PlainCalls, 1)
    \/ \E s \in SockIds : OnConnect(s)
    \/ \E d \in devq : DeviceReply(d, "ok")
    \/ \E l \in rx : OnData(l)
SpecIds == Init /\ [][NextIds]_vars

\* C27: the ids of a session's commands start at 1, and two commands of one
\* session do not carry the same id (fewer than 2^16 commands lie between
\* them), in every interleaving of the callers.
CommandFrames == SelectSeq(out, LAMBDA x : x.k = "F")
C27_IdsUnique ==
    /\ \A i \in DOMAIN CommandFrames : CommandFrames[i].id >= 1
    /\ \A i, j \in DOMAIN CommandFrames :
          CommandFrames[i].id = CommandFrames[j].id => i = j

\* ------------------------------------------------- termination of a command
\* One caller and the events of the primary channel: the device accepts the
\* connection or refuses it, answers or stays silent, and may drop the
\* connection at any time. The caller thread is scheduled (weak fairness on
\* its steps) and the clock advances: a wait that keeps testing the clock
\* finds its timeout elapsed (strong fairness on Expire).
NextLive ==
    \/ SetterStep(1, PlainCalls, MaxCalls)
    \/ \E s \in SockIds : OnConnect(s)
    \/ \E s \in SockIds : OnMainClientError(s)
    \/ \E s \in SockIds : Drop(s)
    \/ \E s \in SockIds : OnMainClientDisconnect(s)
    \/ \E d \in devq, shape \in ReplyShapes : DeviceReply(d, shape)
    \/ \E l \in rx : OnData(l)
SpecLive ==
    /\ Init
    /\ [][NextLive]_vars
    /\ WF_vars(SetterStep(1, PlainCalls, MaxCalls))
    /\ SF_vars(Expire(1))

\* The caller thread is inside send_command (the connect() it calls and the
\* checkResponse it ends with included).
SendPcs == {"sc_entry", "co_check", "co_set", "sc_wait", "sc_check", "sc_write",
            "sc_term", "cr_test", "cr_locked", "cr_conn"}
InSendCommand(t) == th[t].pc \in SendPcs
Returned(t) == th[t].pc = "cmd_ret"

\* C28: every send_command call returns: a caller that has entered
\* send_command gets a result, whether the device accepts the connection,
\* answers, or drops the connection, as long as the clock advances.
C28_SendCommandReturns == InSendCommand(1) ~> Returned(1)

\* ------------------------------------------- operations on both channels
\* One call of any setter or of toggle_power, with any selector, on a device
\* that has both light channels, the main one only or the background one
\* only; the device answers in any shape or stays silent, refuses the
\* connection or drops it.
ToggleCalls == {[NoCall EXCEPT !.op = "toggle_power", !.lt = l] : l \in LightTypes}
BothCalls == SetterCalls \cup ToggleCalls
BothCaps == {Methods \cup ToggleMethods, MainMethods \cup {"toggle"},
             (Methods \ MainMethods) \cup {"bg_toggle"}}
InitBoth == InitWith(BothCaps)
NextBoth ==
    \/ SetterStep(1, BothCalls, 1)
    \/ \E s \in SockIds : OnConnect(s)
    \/ \E s \in SockIds : OnMainClientError(s)
    \/ \E s \in SockIds : Drop(s)
    \/ \E s \in SockIds : OnMainClientDisconnect(s)
    \/ \E d \in devq, shape \in ReplyShapes : DeviceReply(d, shape)
    \/ \E l \in rx : OnData(l)
SpecBoth == InitBoth /\ [][NextBoth]_vars

\* The call of thread 1 is addressed to both light channels: selector BOTH,
\* or AUTO on a device with both capabilities of the operation.
AddressedToBoth ==
    LET c == th[1].cur IN
    /\ c \in BothCalls
    /\ \/ c.lt = BOTH
       \/ /\ c.lt = AUTO
          /\ MainOf(c.op) \in supported_methods
          /\ BgMethod(MainOf(c.op)) \in supported_methods
\* The methods of the commands the call has written so far, in order.
SentMethods == [i \in DOMAIN CommandFrames |-> CommandFrames[i].m]
MainCommand == MainOf(th[1].cur.op)
BgCommand == BgMethod(MainCommand)
Prefixes(q) == {SubSeq(q, 1, n) : n \in 0..Len(q)}
\* What the call does once a command function has returned ret: the
\* background command follows exactly when the main one returned SUCCESS and
\* otherwise the call returns ret; the outcome of the background command is
\* the call's result.
ShortCircuit(main, bg) ==
    (AddressedToBoth /\ th[1].pc = "cmd_ret" /\ th'[1] # th[1]) =>
        IF Head(th[1].todo) = main
        THEN IF th[1].ret = SUCCESS
             THEN th'[1].pc = "cmd" /\ th'[1].todo = <<bg>>
             ELSE th'[1].pc = "done" /\ th'[1].result = th[1].ret
        ELSE /\ Head(th[1].todo) = bg
             /\ th'[1].pc = "done" /\ th'[1].result = th[1].ret

\* C30: for an operation addressed to both light channels the main-channel
\* command is sent first, the background-channel command is sent if and only
\* if the main-channel command returned SUCCESS, the call returns the outcome
\* of the last command, and no other command is sent after a failure.
C30_BothSequencing ==
    /\ [](AddressedToBoth => SentMethods \in Prefixes(<<MainCommand, BgCommand>>))
    /\ [][ShortCircuit(MainCommand, BgCommand)]_vars

\* C30 as the code has it: the setters (power, colour temperature, RGB,
\* brightness, HSV) send the main-channel command first, send the
\* background-channel command if and only if the main one returned SUCCESS,
\* return the outcome of the last command and send nothing else;
\* toggle_power addressed to both channels sends the single dev_toggle
\* command and returns its outcome.
IsToggle == th[1].cur.op = "toggle_power"
C30_BothSequencingSetters ==
    /\ [](AddressedToBoth =>
            IF IsToggle THEN SentMethods \in Prefixes(<<"dev_toggle">>)
            ELSE SentMethods \in Prefixes(<<MainCommand, BgCommand>>))
    /\ [][IF IsToggle THEN ShortCircuit("none", "dev_toggle")
          ELSE ShortCircuit(MainCommand, BgCommand)]_vars

\* A call with selector BOTH has returned: the main command returned SUCCESS,
\* the background command was sent and failed, and its outcome is the
\* call's result.
C30_Witness ==
    /\ AddressedToBoth /\ th[1].cur.lt = BOTH /\ ~IsToggle
    /\ th[1].pc = "done"
    /\ SentMethods = <<MainCommand, BgCommand>>
    /\ th[1].result = ERROR

\* --------------------------------------------------- the id counter wraps
\* A run of k further commands that all complete on the connected primary:
\* each takes an id (send_command, line 223), is answered, and its waiter
\* finds and erases the entry (checkResponse, lines 114-118). The run leaves
\* the table as it was and the counter k ids further on, modulo 2^16.
CompletedCommands(t, k) ==
    /\ At(t, "idle")
    /\ th[t].ncalls \in 1..(WrapCalls - 1)
    /\ is_connected
    /\ rx = {} /\ devq = {}
    /\ response_id' = (response_id + k) % IdModulus
    /\ th' = [th EXCEPT ![t].ncalls = th[t].ncalls + 1]
    /\ UNCHANGED <<supported_methods, responses, responses_mutex, client, music_client,
                   music_mode, connecting, sock, out, rx, devq, inbound, crashed>>
    /\ UNCHANGED aux

\* One caller whose commands may time out before the device answers, with
\* 2^16 - 1 completed commands between two of its calls.
NextWrap ==
    \/ SetterStep(1, PlainCalls, WrapCalls)
    \/ CompletedCommands(1, IdModulus - 1)
    \/ \E s \in SockIds : OnConnect(s)
    \/ \E d \in devq : DeviceReply(d, "ok")
    \/ \E l \in rx : OnData(l)
SpecWrap == Init /\ [][NextWrap]_vars

\* C31: the outcome a waiter is given was recorded after its command was
\* written: while a caller has taken an id and has not yet written its whole
\* command, the table holds no entry under that id, also after the 16-bit
\* counter has wrapped.
C31_NoStaleOutcome ==
    \A t \in Threads :
        th[t].pc \in {"sc_write", "sc_term"} => th[t].myid \notin DOMAIN responses

\* C32: set_music_mode(true) returns SUCCESS when the device has answered ok
\* to the enable command and has connected back to the listener: a call that
\* returns before its timeout while the ok recorded for its command sits in
\* the table and an inbound connection was accepted returns SUCCESS.
C32_EnableReturnsSuccess ==
    \A t \in Threads :
        (/\ th[t].pc = "done" /\ th[t].cur = MusicOnCall
         /\ ~th[t].expired
         /\ inbound > 0
         /\ th[t].myid \in DOMAIN responses
         /\ responses[th[t].myid] = SUCCESS)
        => th[t].result = SUCCESS

\* C33: enable_music_mode gets past its rendezvous wait only on a release
\* made after the call started: at the step where enable_music_mode is
\* called the semaphore is empty, so that no release left over from an
\* earlier handoff can satisfy the wait.
C33_NoLeftoverRelease ==
    [][\A t \in Threads :
        (th[t].pc = "idle" /\ th'[t].pc = "em_conn" /\ th'[t].cur = EnableCall)
        => music_sem = 0]_vars

\* ------------------------------------------------ callbacks of old sockets
\* The device connects back more than once, so that a direct socket is
\* replaced by a newer one while its own disconnect callback is still to
\* come; one caller sends a command meanwhile.
NextStale ==
    \/ SetterStep(1, PlainCalls, 1)
    \/ MusicWrite(1)
    \/ MusicTerm(1)
    \/ \E s \in SockIds : OnConnect(s)
    \/ \E s \in SockIds : OnMainClientError(s)
    \/ \E s \in SockIds : OnMainClientDisconnect(s)
    \/ \E s \in SockIds : OnMusicDisconnect(s)
    \/ HandleNewClientUpTo(StaleInbound)
SpecStale == Init /\ [][NextStale]_vars

\* C34: a callback for a socket that is no longer the session's current
\* primary or direct socket changes no session state: while the current
\* direct socket stays connected music_mode is not cleared, and while the
\* current connection attempt is still in flight the connecting flag is not
\* cleared.
C34_StaleCallbacksInert ==
    /\ [][(/\ music_mode
           /\ music_client # NULL /\ music_client' = music_client
           /\ sock[music_client].st = "connected"
           /\ sock'[music_client].st = "connected") => music_mode']_vars
    /\ [][(/\ connecting
           /\ client # NULL /\ client' = client
           /\ sock[client].st = "connecting"
           /\ sock'[client].st = "connecting") => connecting']_vars

\* ------------------------------------------- the retirement of socket objects
\* What the steps below leave alone besides the session and its sockets.
rest == <<music_sem, accepted, partialResponse, properties, wire, fed,
          flow, cf, packet, device, objects, devices, partialFrom, music_mode_server>>

\* scheduleDeleteClient(c): nothing for a null pointer; a one-shot timer that
\* will delete c, or delete c at once when the timer could not be created
\* (made = FALSE).
scheduleDeleteClient(c, made) ==
    IF c = NULL THEN UNCHANGED <<timers, deletions>>
    ELSE IF made THEN /\ timers' = [timers EXCEPT ![c] = @ + 1]
                      /\ UNCHANGED deletions
    ELSE /\ deletions' = [deletions EXCEPT ![c] = @ + 1]
         /\ UNCHANGED timers

\* connect(), lines 145-148: connecting = true; closingManually = true;
\* client->close()
RetireClose(t) ==
    /\ At(t, "co_set")
    /\ connecting' = TRUE
    /\ sock' = Closed(sock, client)
    /\ rx' = Deliverable(rx, sock')
    /\ devq' = Deliverable(devq, sock')
    /\ th' = [th EXCEPT ![t].pc = IF client = NULL THEN "co_new" ELSE "co_sched"]
    /\ UNCHANGED <<supported_methods, response_id, responses, responses_mutex, client,
                   music_client, music_mode, out, inbound, crashed>>
    /\ UNCHANGED rest /\ UNCHANGED retire

\* connect(), line 149: scheduleDeleteClient(client), with the pointer as it
\* is read now
RetireSchedule(t) ==
    /\ At(t, "co_sched")
    /\ \E made \in BOOLEAN : scheduleDeleteClient(client, made)
    /\ th' = [th EXCEPT ![t].pc = "co_null"]
    /\ UNCHANGED <<session, sock, out, rx, devq, inbound, crashed, cb>>
    /\ UNCHANGED rest

\* connect(), line 150: client = nullptr
RetireNull(t) ==
    /\ At(t, "co_null")
    /\ client' = NULL
    /\ th' = [th EXCEPT ![t].pc = "co_new"]
    /\ UNCHANGED <<supported_methods, response_id, responses, responses_mutex,
                   music_client, music_mode, connecting, sock, out, rx, devq,
                   inbound, crashed>>
    /\ UNCHANGED rest /\ UNCHANGED retire

\* connect(), lines 152-180: the new socket, its callbacks and
\* client->connect(); ok is its return value.
ConnectNew(t) ==
    /\ At(t, "co_new")
    /\ UnusedSocks # {}
    /\ \E ok \in BOOLEAN :
        /\ sock' = IF ok THEN [sock EXCEPT ![NewSock] = [role |-> "main", st |-> "connecting"]]
                   ELSE sock
        /\ client' = IF ok THEN NewSock ELSE NULL
        /\ connecting' = ok
        /\ th' = [ConnectResult(t, IF ok THEN SUCCESS ELSE CONNECTION_FAILED)
                    EXCEPT ![t].attempts = th[t].attempts + ConnectAttempts]
    /\ UNCHANGED <<supported_methods, response_id, responses, responses_mutex,
                   music_client, music_mode, out, rx, devq, inbound, crashed>>
    /\ UNCHANGED rest /\ UNCHANGED retire

\* set_music_mode(false), lines 2271-2272: if (music_client)
\* music_client->close()
MusicCloseOnly(t) ==
    /\ At(t, "sm_close")
    /\ sock' = Closed(sock, music_client)
    /\ rx' = Deliverable(rx, sock')
    /\ devq' = Deliverable(devq, sock')
    /\ th' = IF music_client = NULL
             THEN [th EXCEPT ![t].pc = "co_check", ![t].back = "sm_done"]
             ELSE [th EXCEPT ![t].pc = "sm_delete"]
    /\ UNCHANGED <<session, out, inbound, crashed>>
    /\ UNCHANGED rest /\ UNCHANGED retire

\* set_music_mode(false), line 2273: delete music_client, with the pointer
\* as it is read now (delete of a null pointer does nothing)
MusicDelete(t) ==
    /\ At(t, "sm_delete")
    /\ scheduleDeleteClient(music_client, FALSE)
    /\ sock' = IF music_client = NULL THEN sock
               ELSE [sock EXCEPT ![music_client].st = "deleted"]
    /\ rx' = Deliverable(rx, sock')
    /\ devq' = Deliverable(devq, sock')
    /\ accepted' = accepted \ {music_client}
    /\ th' = [th EXCEPT ![t].pc = "sm_null"]
    /\ UNCHANGED <<session, out, inbound, crashed, cb>>
    /\ UNCHANGED <<music_sem, partialResponse, properties, wire, fed,
                   flow, cf, packet, device, objects, devices, partialFrom,
                   music_mode_server>>

\* set_music_mode(false), lines 2274-2276: music_client = nullptr; connect()
MusicNull(t) ==
    /\ At(t, "sm_null")
    /\ music_client' = NULL
    /\ th' = [th EXCEPT ![t].pc = "co_check", ![t].back = "sm_done"]
    /\ UNCHANGED <<supported_methods, response_id, responses, responses_mutex,
                   client, music_mode, connecting, sock, out, rx, devq, inbound, crashed>>
    /\ UNCHANGED rest /\ UNCHANGED retire

\* The event context enters the disconnect callback of a socket that was
\* closed.
DisconnectEnter(s) ==
    /\ ~crashed
    /\ cb = NoCb
    /\ sock[s].st = "closing"
    /\ sock' = [sock EXCEPT ![s].st = "retired"]
    /\ cb' = [s |-> s, pc |-> "test"]
    /\ UNCHANGED <<session, out, rx, devq, inbound, crashed, th, deletions, timers>>
    /\ UNCHANGED rest

\* The session's pointer to the socket whose callback is running.
Current == IF sock[cb.s].role = "main" THEN client ELSE music_client
\* Where a disconnect callback goes on when the pointer is dealt with:
\* onMainClientDisconnect returns, onMusicDisconnect clears music_mode.
AfterPointer == IF sock[cb.s].role = "main" THEN NoCb ELSE [cb EXCEPT !.pc = "mode"]

\* onMainClientDisconnect line 747, onMusicDisconnect line 754:
\* if (client == c), if (music_client == c)
DisconnectTest ==
    /\ ~crashed
    /\ cb.pc = "test"
    /\ cb' = IF Current = cb.s THEN [cb EXCEPT !.pc = "null"] ELSE AfterPointer
    /\ UNCHANGED <<session, sock, out, rx, devq, inbound, crashed, th, deletions, timers>>
    /\ UNCHANGED rest

\* lines 748 and 755: client = nullptr, music_client = nullptr
DisconnectNull ==
    /\ ~crashed
    /\ cb.pc = "null"
    /\ IF sock[cb.s].role = "main"
       THEN client' = NULL /\ UNCHANGED music_client
       ELSE music_client' = NULL /\ UNCHANGED client
    /\ cb' = [cb EXCEPT !.pc = "sched"]
    /\ UNCHANGED <<supported_methods, response_id, responses, responses_mutex,
                   music_mode, connecting, sock, out, rx, devq, inbound, crashed, th,
                   deletions, timers>>
    /\ UNCHANGED rest

\* lines 749 and 756: scheduleDeleteClient(c)
DisconnectSchedule ==
    /\ ~crashed
    /\ cb.pc = "sched"
    /\ \E made \in BOOLEAN : scheduleDeleteClient(cb.s, made)
    /\ cb' = AfterPointer
    /\ UNCHANGED <<session, sock, out, rx, devq, inbound, crashed, th>>
    /\ UNCHANGED rest

\* onMusicDisconnect line 758: music_mode = false
DisconnectMode ==
    /\ ~crashed
    /\ cb.pc = "mode"
    /\ music_mode' = FALSE
    /\ cb' = NoCb
    /\ UNCHANGED <<supported_methods, response_id, responses, responses_mutex, client,
                   music_client, connecting, sock, out, rx, devq, inbound, crashed, th,
                   deletions, timers>>
    /\ UNCHANGED rest

\* deleteClientCallback: a pending timer fires and deletes its socket object.
deleteClientCallback(s) ==
    /\ ~crashed
    /\ timers[s] > 0
    /\ timers' = [timers EXCEPT ![s] = @ - 1]
    /\ deletions' = [deletions EXCEPT ![s] = @ + 1]
    /\ UNCHANGED <<session, sock, out, rx, devq, inbound, crashed, th, cb>>
    /\ UNCHANGED rest

\* The steps of a caller that calls connect() or set_music_mode(false), with
\* the retirement of the old socket in the steps of the code.
RetireStep(t, calls, limit) ==
    \/ ConnectCallStart(t, calls, limit)
    \/ MusicCallStart(t, calls, limit)
    \/ CommandStart(t)
    \/ SendEntry(t)
    \/ MusicWrite(t)
    \/ MusicTerm(t)
    \/ ConnectCheck(t)
    \/ RetireClose(t)
    \/ RetireSchedule(t)
    \/ RetireNull(t)
    \/ ConnectNew(t)
    \/ SendWait(t)
    \/ SendCheck(t)
    \/ SendWrite(t)
    \/ SendTerm(t)
    \/ Expire(t)
    \/ CheckLoop(t)
    \/ CheckFind(t)
    \/ CheckConn(t)
    \/ CommandReturn(t)
    \/ MusicCloseOnly(t)
    \/ MusicDelete(t)
    \/ MusicNull(t)
    \/ MusicOffReturn(t)
    \/ CallReturn(t)

\* One caller, the event context (one callback at a time) and the timer
\* service, on a device that may connect back and may drop a connection.
RetireCalls == {ConnectCall, MusicOffCall}
InitRetireSpec == InitWith({Methods \cup {"set_music"}})
NextRetire ==
    \/ RetireStep(1, RetireCalls, MaxCalls)
    \/ (cb = NoCb /\ \E s \in SockIds : OnConnect(s))
    \/ (cb = NoCb /\ HandleNewClient)
    \/ \E s \in SockIds : Drop(s)
    \/ \E s \in SockIds : DisconnectEnter(s)
    \/ DisconnectTest
    \/ DisconnectNull
    \/ DisconnectSchedule
    \/ DisconnectMode
    \/ \E s \in SockIds : deleteClientCallback(s)
    \/ \E d \in devq : DeviceReply(d, "ok")
    \/ (cb = NoCb /\ \E l \in rx : OnData(l))
SpecRetire == InitRetireSpec /\ [][NextRetire]_vars

\* C35: every socket object a session retires is deleted at most once: no
\* object has more than one deletion, done or pending, counting a direct
\* delete and each deletion timer.
C35_DeletedAtMostOnce ==
    \A s \in SockIds : deletions[s] + timers[s] <= 1

\* C36: handleNewClient never uses a primary socket that does not exist: the
\* step that accepts an inbound connection for a session whose primary
\* pointer is null dereferences no null pointer.
C36_AcceptWithoutPrimary ==
    [][(inbound' # inbound /\ client = NULL) => ~crashed']_vars

\* ------------------------------------------ the frame reader across connections
\* Lines 170-172 (connect) and 363-366 (handleNewClient) register the same
\* onData, on the same partialResponse, for every socket of the session.
\* The sockets whose bytes reach onData.
Receiving == {s \in SockIds : s \in {client, music_client} /\ sock[s].st = "connected"}

\* What a device gets onto a connection before it ends: whole lines, or a
\* line cut short.
StreamLines == {<<"{", "id1", "r_ok", "}", LF>>, <<"{", "id2", "error", "}", LF>>}
Sendable == {SubSeq(l, 1, k) : l \in StreamLines, k \in 1..Len(<<"{", "id1", "r_ok", "}", LF>>)}

\* The peer of socket s sends bytes.
DeviceSend(s, bytes) ==
    /\ ~crashed
    /\ s \in Receiving
    /\ wire = <<>>
    /\ Len(fed) < StreamChunks
    /\ wire' = bytes
    /\ UNCHANGED <<session, sock, out, rx, devq, inbound, crashed, th>>
    /\ UNCHANGED <<music_sem, accepted, partialResponse, properties, fed, ext>>

\* The last count elements of a sequence.
Last(q, count) == SubSeq(q, Len(q) - count + 1, Len(q))

\* AsyncTCP hands onData the next bytes that arrived on socket s.
OnDataFrom(s, len) ==
    /\ ~crashed
    /\ s \in Receiving
    /\ len \in 1..Len(wire)
    /\ Len(fed) < StreamChunks
    /\ LET chunk == SubSeq(wire, 1, len)
           after == onData(Reader, chunk) IN
        /\ partialResponse' = after.partialResponse
        /\ partialFrom' = Last(partialFrom \o [i \in 1..len |-> s], Len(after.partialResponse))
        /\ responses' = after.responses
        /\ properties' = after.properties
        /\ wire' = SubSeq(wire, len + 1, Len(wire))
        /\ fed' = Append(fed, chunk)
    /\ UNCHANGED <<supported_methods, response_id, responses_mutex, client, music_client,
                   music_mode, connecting, sock, out, rx, devq, inbound, crashed, th,
                   music_sem, accepted>>
    /\ UNCHANGED <<flow, cf, packet, device, objects, devices, retire, music_mode_server>>

\* A session whose connections follow each other: the first primary, the
\* primary of a later connect(), an inbound connection. The bytes a peer sent
\* are delivered before its connection ends.
NextStreams ==
    \/ ConnectCallStart(1, {ConnectCall}, MaxCalls)
    \/ ConnectCheck(1)
    \/ (wire = <<>> /\ ConnectBegin(1))
    \/ CallReturn(1)
    \/ \E s \in SockIds : OnConnect(s)
    \/ (wire = <<>> /\ \E s \in SockIds : Drop(s))
    \/ \E s \in SockIds : OnMainClientDisconnect(s)
    \/ (wire = <<>> /\ HandleNewClient)
    \/ \E s \in SockIds, bytes \in Sendable : DeviceSend(s, bytes)
    \/ \E s \in SockIds, len \in 1..MaxChunk : OnDataFrom(s, len)
SpecStreams == Init /\ [][NextStreams]_vars

\* The bytes onData took out of the accumulator in a step that gave it a chunk.
Consumed == Len(partialResponse) + Len(fed'[Len(fed')]) - Len(partialResponse')

\* C37: every line onData hands to the parser consists of bytes of one
\* connection: when a chunk of socket s completes a line, no byte of that
\* line was left in the accumulator by another socket.
C37_LinesOfOneConnection ==
    [][\A s \in SockIds :
        (fed' # fed /\ s \in Receiving /\ Consumed > 0) =>
            \A i \in 1..Min(Consumed, Len(partialFrom)) : partialFrom[i] = s]_vars

\* ------------------------------------------------ two lines in one chunk
\* The device sends a notification or an answer and, right behind it, the
\* answer to a command; TCP may deliver both in one segment.
BurstFirst ==
    {<<"{", "m_props", "}", LF>>,
     <<"{", "m_props", "p_string", "}", LF>>,
     <<"{", "m_props", "p_obj", "}", LF>>,
     <<"{", "id1", "r_ok", "}", LF>>}
BurstSecond ==
    {<<"{", "id2", "r_ok", "}", LF>>,
     <<"{", "id2", "error", "}", "CR", LF>>}
Bursts == {a \o b : a \in BurstFirst, b \in BurstSecond}

InitBurst ==
    /\ InitSession({Methods})
    /\ InitExt
    /\ client # NULL
    /\ music_sem = 0
    /\ accepted = {}
    /\ partialResponse = <<>>
    /\ properties = NoProperties
    /\ wire \in Bursts
    /\ fed = <<>>
NextBurst ==
    \/ \E s \in SockIds : OnConnect(s)
    \/ \E len \in 1..BurstChunk : OnDataChunk(len)
SpecBurst == InitBurst /\ [][NextBurst]_vars

\* C38: when onData has returned, the accumulator holds no line terminator:
\* every complete line that was in it has been taken out, also when an
\* earlier line of the same chunk was a props notification whose params
\* member is missing or is no object.
C38_NoTerminatorLeft == Find(partialResponse, LF) = NPOS

\* ------------------------------------------------ the process-wide listener
\* static AsyncServer *music_mode_server: null, or the one server that listens on
\* port 55443 for every session of the process.
Listening == 1

\* bool Yeelight::createMusicModeServer(): the value of music_mode_server
\* after the call
createMusicModeServer(srv) == IF srv # NULL THEN srv ELSE Listening

\* A descriptor of a device that advertises set_music.
MusicDescriptor(a) ==
    [ip |-> a, supported_methods |-> Advertised(a) \cup {"set_music"}]

\* enable_music_mode() or set_music_mode(true) on object y, as far as the
\* listener goes: past the capability gate, createMusicModeServer() is called.
EnableMusicMode(y) ==
    /\ objects[y].state = "alive"
    /\ "set_music" \in objects[y].supported_methods
    /\ music_mode_server' = createMusicModeServer(music_mode_server)
    /\ UNCHANGED <<objects, devices>>
    /\ RegistryStep

NextListener ==
    \/ NextObjects
    \/ \E y \in Objects, a \in Addresses : ConstructDevice(y, MusicDescriptor(a))
    \/ \E y \in Objects : EnableMusicMode(y)
SpecListener == InitObjects /\ [][NextListener]_vars

\* The sessions that exist.
Alive(objs) == {y \in Objects : objs[y].state = "alive"}

\* C39: the process-wide listener stays for as long as any session exists:
\* a step after which a session still exists (the destruction of another
\* session among them) does not stop or delete it.
C39_ListenerOutlivesSession ==
    [][(music_mode_server # NULL /\ Alive(objects') # {}) => music_mode_server' # NULL]_vars

\* ------------------------------------------------------- the hsv scene
\* set_scene_hsv_command and bg_set_scene_hsv_command(const uint8_t hue,
\* const uint8_t sat, const uint8_t bright): the method and the params array
\* handed to send_command.
set_scene_hsv_command(hue, sat, bright) ==
    [k |-> "C", m |-> "set_scene", params |-> <<"hsv", hue, sat, bright>>]
bg_set_scene_hsv_command(hue, sat, bright) ==
    [k |-> "C", m |-> "bg_set_scene", params |-> <<"hsv", hue, sat, bright>>]

\* The command of one branch, with the arguments as the call site passes
\* them: static_cast<uint8_t>(hue), sat, bright.
SceneCommand(m, c) ==
    IF m = "set_scene" THEN set_scene_hsv_command(U8(c.hue), c.sat, c.bright)
    ELSE bg_set_scene_hsv_command(U8(c.hue), c.sat, c.bright)

\* set_scene_hsv(hue, sat, bright, lightType), and set_hsv_color(hue, sat,
\* bright, lightType) whose body is the same: the range tests, the capability
\* gate, then the commands of the LightType branch in order.
set_scene_hsv(c, caps) ==
    IF c.bright < MinBright \/ c.bright > MaxBright THEN Return(INVALID_PARAMS)
    ELSE IF c.hue > MaxHue THEN Return(INVALID_PARAMS)
    ELSE IF c.sat > MaxSat THEN Return(INVALID_PARAMS)
    ELSE IF NeitherSupported("set_scene", caps) THEN Return(METHOD_NOT_SUPPORTED)
    ELSE LET ms == Dispatch(c.lt, "set_scene", caps).cmds IN
         Issue([i \in DOMAIN ms |-> SceneCommand(ms[i], c)])

\* The hsv scene calls of the application: hues below, at and above the
\* range of one byte and the documented range.
SceneOps == {"set_scene_hsv", "set_hsv_color"}
SceneHues == {0, 255, 256, 300, 359, 360}
SceneCalls ==
    {[NoCall EXCEPT !.op = o, !.lt = l, !.hue = h, !.sat = s, !.bright = b] :
        o \in SceneOps, l \in LightTypes, h \in SceneHues, s \in Sats, b \in Brights}
SceneCaps == {{"set_scene", "bg_set_scene"}, {"set_scene"}, {"bg_set_scene"}, {}}

\* The call up to send_command: the value it returns at once, or the commands
\* it hands to send_command when each of them succeeds.
SceneHsvCall(t, c) ==
    /\ At(t, "idle")
    /\ th[t].ncalls < MaxCalls
    /\ LET r == set_scene_hsv(c, supported_methods) IN
        /\ th' = [th EXCEPT ![t] = [IdleThread EXCEPT
                        !.ncalls = th[t].ncalls + 1,
                        !.cur = c,
                        !.result = r.ret,
                        !.pc = "done"]]
        /\ out' = out \o r.cmds
    /\ UNCHANGED <<session, sock, rx, devq, inbound, crashed>>
    /\ UNCHANGED aux

InitScene == InitWith(SceneCaps)
NextScene ==
    \/ \E s \in SockIds : OnConnect(s)
    \/ \E c \in SceneCalls : SceneHsvCall(1, c)
SpecScene == InitScene /\ [][NextScene]_vars

\* C40: for every hue of 0..359 the hue written in the params of the
\* set_scene hsv command equals the hue the caller asked for; it is not
\* reduced modulo 256.
C40_HueAsRequested ==
    \A t \in Threads :
        (th[t].pc = "done" /\ th[t].cur.op \in SceneOps /\ th[t].cur.hue <= MaxHue) =>
            \A i \in DOMAIN out : out[i].params[2] = th[t].cur.hue
====
